---- MODULE Spec2Model ----
(***************************************************************************)
(* A model of the teaching notebooks of 02456-deep-learning:               *)
(*   LA     src/unnamed/part_000 (feed forward network with NumPy)         *)
(*   TF     src/notebooks/Introduction/3.FFN_Intro_Tensorflow.ipynb        *)
(*   Keras  src/notebooks/Introduction/4.FFN_Intro_Keras.ipynb             *)
(*   Lab    src/notebooks/lab1_Introduction/4.lab1_Keras_basics.ipynb      *)
(* Each part of the notebooks has a specification of its own; the          *)
(* variables of the other parts stay at their idle values meanwhile.       *)
(* An action named by a letter and a number is the statement at that line  *)
(* of the file its section names (L, E, D, H of part_000, T, G, S, P of    *)
(* the TensorFlow notebook, K, F, I, M, X of the Keras notebook, B of the  *)
(* lab notebook); a suffix names the branch taken there.                   *)
(***************************************************************************)
EXTENDS Integers, Sequences, FiniteSets, TLC

VARIABLES
    \* ---- the Jupyter kernel of one notebook (SpecCells)
    notebook,     \* which notebook the kernel belongs to
    bound,        \* the global names bound in the kernel
    done,         \* the code cells that have completed since the kernel started
    executed,     \* the code cells that have been executed (completed or not)
    last,         \* the last execution: its cell, `method`, outcome, and whether
                  \* it ran on a fresh kernel / after all the earlier cells
    \* ---- one call of build_model in part_000 (SpecBuild)
    pc,           \* the source line of part_000 that runs next
    frame,        \* the locals of the call
    \* ---- the TensorFlow runtime under a running cell (pc, frame are then the
    \*      cell's position and the globals it binds)
    graph,        \* the default graph
    sess,         \* the session the cell uses: the values of the variables
    run           \* the last sess.run: its number, fetches and feed

cellVars == <<notebook, bound, done, executed, last>>

buildVars == <<pc, frame>>

tfVars == <<graph, sess, run>>

vars == <<notebook, bound, done, executed, last, pc, frame, graph, sess, run>>

otherThanCells == <<buildVars, tfVars>>

otherThanBuild == <<cellVars, tfVars>>

\* No cell has been executed yet.
NoExecution ==
    [cell |-> 0, method |-> 0, outcome |-> "none", fresh |-> FALSE,
     afterEarlier |-> FALSE]

\* The values of the variables of a part that is not running.
IdleCells ==
    /\ notebook = "none"
    /\ bound = {}
    /\ done = {}
    /\ executed = {}
    /\ last = NoExecution

IdleBuild == pc = 0 /\ frame = << >>

NoRun == [n |-> 0, fetches |-> {}, feed |-> "none"]

IdleTF == graph = << >> /\ sess = << >> /\ run = NoRun

IdleOutsideCells == IdleBuild /\ IdleTF

IdleOutsideBuild == IdleCells /\ IdleTF

(***************************************************************************)
(* The kernel namespace.  A code cell is a sequence of statement groups;   *)
(* a group reads global names (those a function it calls reads included)   *)
(* and then binds global names.  Python runs a cell statement by statement *)
(* and stops at the first name that is not bound (NameError), keeping what *)
(* the earlier statements bound.                                           *)
(***************************************************************************)

Notebooks == {"LA", "TF", "Keras", "Lab"}

\* The values the user can give `method` in the lab notebook's model cell
\* (the cell is written with method = 1; 4 stands for any invalid value).
Methods == {1, 2, 3, 4}

G(reads, binds) == [reads |-> reads, binds |-> binds]

\* The global names a function of the notebook reads when it is called.
FnGlobals(f) ==
    CASE f = "build_model" ->
            {"extract_data", "np", "mesh_grid", "plt", "softmax", "plot",
             "plot_error", "display", "cross_entropy"}
      [] f = "softmax" -> {"np"}
      [] f = "cross_entropy" -> {"predict", "np"}
      [] f = "ffn_layer" -> {"tf"}
      [] f = "pred" -> {"input_placeholder", "output"}
      [] f = "train" ->
            {"tf", "K", "max_epoch", "mnist_data", "batch_size", "img",
             "labels", "utils"}
      [] OTHER -> {}

RECURSIVE CallNeeds(_, _)
\* The names a call of the functions fs needs, those of the functions they
\* call in turn included; seen are the names already expanded.
CallNeeds(fs, seen) ==
    LET new == (UNION {FnGlobals(f) : f \in fs}) \ seen
    IN  IF new = {} THEN seen ELSE CallNeeds(new, seen \cup new)

Call(f) == CallNeeds({f}, {f})

LACells ==
    << << G({}, {"sys", "os", "matplotlib", "np", "plt", "extract_data",
                 "mesh_grid", "plot", "plot_error", "predict", "clear_output",
                 "display", "make_moons", "precision_score", "accuracy_score"}) >>,
       << G({}, {"softmax", "cross_entropy"}) >>,
       << G({}, {"build_model"}) >>,
       << G({}, {"train_size", "test_size"}),
          G({"make_moons"}, {"X_train", "Y_train", "X_test", "Y_test"}),
          G({}, {"train_data", "test_data", "LEARNING_RATE", "REGULARIZATION",
                 "HIDDEN_DIMENSIONS", "EPOCHS"}),
          G(Call("build_model"), {}) >> >>

TFCells ==
    << << G({}, {"matplotlib", "plt", "np", "sys", "os", "utils", "make_moons",
                 "clear_output", "tf", "reset_default_graph"}) >>,
       << G({}, {"train_size", "val_size", "test_size"}),
          G({"make_moons"}, {"X_train", "Y_train", "X_val", "Y_val", "X_test",
                             "Y_test", "num_features", "num_outputs"}) >>,
       << G({"reset_default_graph"}, {}),
          G({"tf", "num_features"}, {"input_placeholder"}),
          G({}, {"ffn_layer"}),
          G({"num_outputs"} \cup Call("ffn_layer"), {"l_1"}),
          G({}, {"output"}) >>,
       << G({"tf"}, {"sess"}), G({"utils"}, {"tmp_def"}) >>,
       << G({"tf", "num_outputs"}, {"y"}),
          G({"output"}, {"cross_entropy"}) >>,
       << G({"tf"}, {"optimizer"}),
          G({"cross_entropy"}, {"grads_and_vars", "train_op"}) >>,
       << G({"tf", "output", "y"}, {"correct_prediction", "accuracy"}) >>,
       << G({"tf"}, {"sess"}), G({"utils"}, {"tmp_def"}) >>,
       << G({}, {"pred", "num_epochs", "train_cost", "val_cost", "val_acc"}),
          G({"tf"}, {"gpu_opts", "sess", "init"}),
          G({"utils", "X_val", "Y_val"} \cup Call("pred"), {}),
          G({"plt"}, {}),
          G({"input_placeholder", "X_train", "y", "Y_train", "num_outputs"},
            {"e", "feed_dict_train"}),
          G({"train_op", "cross_entropy"}, {"fetches_train", "res"}),
          G({}, {"feed_dict_valid"}),
          G({"accuracy"}, {"fetches_valid"}),
          G({"clear_output"}, {}),
          G({"X_test", "Y_test"},
            {"feed_dict_test", "fetches_test", "test_cost", "test_acc"}),
          G({"np"}, {"epoch"}) >> >>

\* The Keras import cell without its last line, model = None.
KerasImportCellNoModel ==
    << G({"reset_default_graph"}, {}),
       G({}, {"Sequential", "Dense", "Activation", "K"}) >>

\* The Keras import cell: reset_default_graph(), the imports, model = None.
KerasImportCell ==
    << G({"reset_default_graph"}, {}),
       G({}, {"Sequential", "Dense", "Activation", "K", "model"}) >>

KerasCells ==
    << << G({}, {"matplotlib", "plt", "np", "sys", "os", "utils", "ffn_layer",
                 "make_moons", "clear_output", "tf", "reset_default_graph"}) >>,
       << G({"np"}, {"data", "num_classes", "x_train", "targets_train",
                     "x_valid", "targets_valid", "x_test", "targets_test",
                     "idx", "canvas", "i", "j"}),
          G({"plt"}, {}) >>,
       << G({"reset_default_graph"}, {}),
          G({"x_train"}, {"num_features", "num_classes", "num_l1_neurons"}),
          G({"tf"}, {"input_placeholder"}),
          G({"ffn_layer"}, {"layer1", "layer1_nonlinear", "layer2", "output",
                            "target_placeholder", "cross_entropy", "loss_tn",
                            "optimizer", "train_op"}) >>,
       << G({"tf"}, {"sess"}), G({"utils"}, {"tmp_def"}) >>,
       << G({}, {"ConfusionMatrix", "batch_size", "num_epochs"}),
          G({"x_train"}, {"num_samples_train", "num_batches_train"}),
          G({"x_valid"}, {"num_samples_valid", "num_batches_valid", "train_acc",
                          "train_loss", "valid_acc", "valid_loss", "test_acc",
                          "test_loss", "cur_loss", "loss", "epoch", "i", "idx",
                          "x_batch"}),
          G({"targets_train"}, {"target_batch"}),
          G({"input_placeholder", "target_placeholder", "utils", "num_classes"},
            {"feed_dict_train"}),
          G({"train_op", "loss_tn", "sess"},
            {"fetches_train", "_", "batch_loss", "confusion_valid",
             "confusion_train", "targets_batch", "feed_dict_eval_train"}),
          G({"output"}, {"fetches_eval_train", "res", "net_out"}),
          G({"np"}, {"preds"}),
          G({"targets_valid"}, {"train_acc_cur", "valid_acc_cur"}),
          G({"clear_output"}, {}),
          G({"plt"}, {}) >>,
       KerasImportCell,
       << G({"K"}, {"session"}),
          G({"model"}, {}),
          G({"x_train"}, {"num_features", "num_classes", "num_l1_neurons",
                          "batch_size", "num_epochs"}),
          G({"Sequential"}, {"model"}),
          G({"Dense", "Activation"}, {}) >>,
       << G({"tf"}, {"sess"}), G({"utils"}, {"tmp_def"}) >>,
       << G({"model", "x_train", "utils", "targets_train", "num_classes",
             "num_epochs", "batch_size"}, {}) >>,
       << G({"model", "x_test", "utils", "targets_test", "num_classes"},
            {"loss", "accuracy"}) >>,
       << >> >>

\* The model cell of the lab notebook binds preds in the branch of `method`;
\* the else branch binds nothing.
LabBranch(method) ==
    CASE method = 1 -> << G({"Dense"}, {"x", "preds"}) >>
      [] method = 2 -> << G({"Sequential"}, {"model"}),
                          G({"Dense"}, {"preds"}) >>
      [] method = 3 -> << G({"Input"}, {"input_layer"}),
                          G({"Dense"}, {"x"}),
                          G({"Model"}, {"model", "preds"}) >>
      [] OTHER -> << >>

LabCells(method) ==
    << << G({}, {"absolute_import", "division", "print_function", "os", "sys",
                 "utils", "tf", "keras", "K", "Sequential", "Model", "Dense",
                 "Input", "categorical_crossentropy", "categorical_accuracy"}) >>,
       << G({}, {"input_data", "mnist_data"}) >>,
       << G({}, {"max_epoch", "batch_size", "train"}) >>,
       << G({}, {"method"}), G({"tf"}, {"img", "labels"}) >>
          \o LabBranch(method) \o
       << G({"K", "categorical_accuracy", "preds"}, {"acc_value"}),
          G({"categorical_crossentropy"}, {"loss"}),
          G({}, {"optimizer", "train_op"}),
          G(Call("train"), {"graph"}),
          G({"utils"}, {}) >>,
       << >> >>

CellsOf(nb, method) ==
    CASE nb = "LA" -> LACells
      [] nb = "TF" -> TFCells
      [] nb = "Keras" -> KerasCells
      [] OTHER -> LabCells(method)

NumCells(nb) == Len(CellsOf(nb, 1))

\* The Keras notebook has the most code cells.
MaxCells == NumCells("Keras")

RECURSIVE ExecGroups(_, _, _)
\* Runs the groups from the k-th on in the namespace env.
ExecGroups(groups, k, env) ==
    IF k > Len(groups) THEN [env |-> env, outcome |-> "ok"]
    ELSE IF ~(groups[k].reads \subseteq env)
         THEN [env |-> env, outcome |-> "NameError"]
         ELSE ExecGroups(groups, k + 1, env \cup groups[k].binds)

ExecCell(cell, env) == ExecGroups(cell, 1, env)

\* The lab notebook's model cell is its fourth code cell.
IsLabModelCell(nb, c) == nb = "Lab" /\ c = 4

InitCells ==
    /\ IdleOutsideCells
    /\ notebook \in Notebooks
    /\ bound = {}
    /\ done = {}
    /\ executed = {}
    /\ last = NoExecution

\* The user executes code cell c (Shift-Enter), the lab notebook's model
\* cell with `method` set to m.
RunCell(c, m) ==
    /\ c \in 1..NumCells(notebook)
    /\ IF IsLabModelCell(notebook, c) THEN m \in Methods ELSE m = 0
    /\ LET r == ExecCell(CellsOf(notebook, m)[c], bound)
       IN  /\ bound' = r.env
           /\ done' = IF r.outcome = "ok" THEN done \cup {c} ELSE done
           /\ executed' = executed \cup {c}
           /\ last' = [cell |-> c, method |-> m, outcome |-> r.outcome,
                       fresh |-> executed \subseteq {c},
                       afterEarlier |-> (1..(c - 1)) \subseteq done]
    /\ UNCHANGED notebook
    /\ UNCHANGED otherThanCells

\* Kernel -> Restart: every name is gone.
RestartKernel ==
    /\ executed # {}
    /\ bound' = {}
    /\ done' = {}
    /\ executed' = {}
    /\ last' = NoExecution
    /\ UNCHANGED notebook
    /\ UNCHANGED otherThanCells

NextCells ==
    \/ \E c \in 1..MaxCells, m \in Methods \cup {0} : RunCell(c, m)
    \/ RestartKernel

SpecCells == InitCells /\ [][NextCells]_vars

\* C1 as stated: a code cell executed on a kernel where no other code cell of
\* the notebook has run completes, needing no name bound by another cell.
C1_EveryCellIndependent ==
    (last.outcome # "none" /\ last.fresh) => last.outcome = "ok"

\* C1 as amended: a code cell executed after every earlier code cell of its
\* notebook has completed raises no NameError (each name it needs is bound by
\* the cell itself or by an earlier cell); the one exception is the lab
\* notebook's model cell run with a `method` other than 1, 2, 3, which reads
\* `preds` without binding it.
C1_NamesComeFromEarlierCells ==
    last.outcome = "NameError" =>
        \/ ~last.afterEarlier
        \/ IsLabModelCell(notebook, last.cell) /\ last.method \notin {1, 2, 3}

\* The Keras notebook's model cell (its seventh code cell) completes after
\* the six cells before it, reading names only they bind.
C1_Witness ==
    /\ notebook = "Keras"
    /\ last.cell = 7
    /\ last.afterEarlier
    /\ last.outcome = "ok"
    /\ ~(\A g \in 1..Len(KerasCells[7]) : KerasCells[7][g].reads = {})

(***************************************************************************)
(* build_model of part_000, statement by statement.  pc is the source line *)
(* that runs next.  An array is modelled by what its value is computed     *)
(* from: a parameter array by the number of gradient-descent updates it    *)
(* has received (ver) and the gradient of its last update (by); a derived  *)
(* array by the parameter versions it was computed from (deps), as pairs   *)
(* <<parameter, ver>>.  The arithmetic itself (dot, tanh, exp) is not      *)
(* modelled here.                                                          *)
(***************************************************************************)

\* The largest `epochs` a call is made with.
MaxEpochs == 3

Params == {"hidden_weights", "hidden_bias", "output_weights", "output_bias"}

Unset == [set |-> FALSE]

\* A freshly initialised parameter array (np.random.randn / np.zeros).
NewParam == [ver |-> 0, by |-> Unset]

\* An array computed by op from arrays that depend on the parameters deps;
\* onehot: 1 has been subtracted at the correct classes; reg: the weights
\* whose regularization term has been added.
Arr(op, deps) ==
    [set |-> TRUE, op |-> op, deps |-> deps, onehot |-> FALSE, reg |-> {}]

\* <<p, ver>> of parameter p as the frame f holds it now.
Cur(f, p) == <<p, f[p].ver>>

\* for i in range(1, epochs):  one iteration short.
LoopRangeShort(epochs) == 1..(epochs - 1)

\* for i in range(1, epochs + 1)
LoopRange(epochs) == 1..epochs

\* The section of the loop body a statement belongs to (the banner comments
\* FORWARD PROPAGATION, BACKPROPAGATION, ADD REGULARIZATION, UPDATE WEIGHTS).
PhaseOf(line) ==
    CASE line \in 165..168 -> "forward"
      [] line \in 171..179 -> "backward"
      [] line \in 184..185 -> "regularize"
      [] line \in 190..194 -> "update"
      [] OTHER -> "other"

\* The log of the sections run in the current iteration, with line added.
Logged(f, line) ==
    IF PhaseOf(line) = "other" \/
       (f.log # << >> /\ f.log[Len(f.log)] = PhaseOf(line))
    THEN f.log
    ELSE Append(f.log, PhaseOf(line))

\* The parameter p after p += -learning_rate * delta.
Descend(f, p, delta) == [ver |-> f[p].ver + 1, by |-> delta]

\* The statement at `line` runs: the frame becomes f and control moves to next.
Stmt(line, next, f) ==
    /\ pc = line
    /\ frame' = [f EXCEPT !.log = Logged(f, line)]
    /\ pc' = next
    /\ UNCHANGED otherThanBuild

InitBuild ==
    /\ IdleOutsideBuild
    /\ pc = 131
    /\ \E epochs \in 0..MaxEpochs :
          frame = [epochs |-> epochs, i |-> 0,
                   hidden_weights |-> Unset, hidden_bias |-> Unset,
                   output_weights |-> Unset, output_bias |-> Unset,
                   model |-> {},
                   hidden_values |-> Unset, hidden_activations |-> Unset,
                   output_values |-> Unset, probs |-> Unset,
                   output_delta |-> Unset,
                   output_weights_delta |-> Unset, output_bias_delta |-> Unset,
                   hidden_delta |-> Unset,
                   hidden_weights_delta |-> Unset, hidden_bias_delta |-> Unset,
                   test_loss |-> << >>, train_loss |-> << >>,
                   \* history: the iterations started, and the sections
                   \* of the loop body run so far in the current one
                   iterations |-> 0, log |-> << >>]

\* X_train, Y_train = extract_data(train_data); the same for the test data.
L131 == Stmt(131, 136, frame)

\* The weights and biases are created.
L136 ==
    Stmt(136, 142, [frame EXCEPT !.hidden_weights = NewParam,
                                 !.hidden_bias = NewParam,
                                 !.output_weights = NewParam,
                                 !.output_bias = NewParam])

\* model = {"HW": ..., "Hb": ..., "OW": ..., "OB": ...}; the plotting set-up;
\* test_loss = []; train_loss = []
L142 == Stmt(142, 163, [frame EXCEPT !.model = {"HW", "Hb", "OW", "OB"}])

\* for i in range(1, epochs + 1): the next iteration starts ...
L163_Iterate ==
    /\ frame.i + 1 \in LoopRange(frame.epochs)
    /\ Stmt(163, 165, [frame EXCEPT !.i = frame.i + 1,
                                    !.iterations = frame.iterations + 1,
                                    !.log = << >>])

\* ... or the range is exhausted and build_model returns.
L163_Exit ==
    /\ frame.i + 1 \notin LoopRange(frame.epochs)
    /\ Stmt(163, 214, frame)

\* hidden_values = X_train.dot(hidden_weights) + hidden_bias
L165 ==
    Stmt(165, 166, [frame EXCEPT !.hidden_values =
        Arr("affine", {Cur(frame, "hidden_weights"), Cur(frame, "hidden_bias")})])

\* hidden_activations = np.tanh(hidden_values)
L166 ==
    Stmt(166, 167, [frame EXCEPT !.hidden_activations =
        Arr("tanh", frame.hidden_values.deps)])

\* output_values = hidden_activations.dot(output_weights) + output_bias
L167 ==
    Stmt(167, 168, [frame EXCEPT !.output_values =
        Arr("affine", frame.hidden_activations.deps
            \cup {Cur(frame, "output_weights"), Cur(frame, "output_bias")})])

\* probs = softmax(output_values)
L168 ==
    Stmt(168, 171, [frame EXCEPT !.probs = Arr("softmax", frame.output_values.deps)])

\* output_delta = probs   (the same array under a second name)
L171 == Stmt(171, 172, [frame EXCEPT !.output_delta = frame.probs])

\* output_delta[range(len(X_train)), Y_train] -= 1   (changes probs as well)
L172 ==
    Stmt(172, 173, [frame EXCEPT !.output_delta.onehot = TRUE,
                                 !.probs.onehot = TRUE])

\* output_weights_delta = (hidden_activations.T).dot(output_delta)
L173 ==
    Stmt(173, 174, [frame EXCEPT !.output_weights_delta =
        [Arr("dot", frame.hidden_activations.deps \cup frame.output_delta.deps)
            EXCEPT !.onehot = frame.output_delta.onehot]])

\* output_bias_delta = np.sum(output_delta, axis=0, keepdims=True)
L174 ==
    Stmt(174, 177, [frame EXCEPT !.output_bias_delta =
        [Arr("sum", frame.output_delta.deps)
            EXCEPT !.onehot = frame.output_delta.onehot]])

\* The output weights as the update of this iteration leaves them.
WeightsAfterUpdate(f) == <<"output_weights", f.output_weights.ver + 1>>

\* The output weights hidden_delta is computed with.
WeightsOfHiddenDelta(f) == Cur(f, "output_weights")

\* hidden_delta = output_delta.dot(output_weights.T)
\*                * (1 - np.power(hidden_activations, 2))
L177 ==
    Stmt(177, 178, [frame EXCEPT !.hidden_delta =
        [Arr("dot*dtanh", frame.output_delta.deps \cup {WeightsOfHiddenDelta(frame)}
             \cup frame.hidden_activations.deps)
            EXCEPT !.onehot = frame.output_delta.onehot]])

\* hidden_weights_delta = np.dot(X_train.T, hidden_delta)
L178 ==
    Stmt(178, 179, [frame EXCEPT !.hidden_weights_delta =
        [frame.hidden_delta EXCEPT !.op = "dot"]])

\* hidden_bias_delta = np.sum(hidden_delta, axis=0)
L179 ==
    Stmt(179, 184, [frame EXCEPT !.hidden_bias_delta =
        [frame.hidden_delta EXCEPT !.op = "sum"]])

\* output_weights_delta += regularization * output_weights
L184 ==
    Stmt(184, 185, [frame EXCEPT !.output_weights_delta.reg =
        @ \cup {Cur(frame, "output_weights")}])

\* hidden_weights_delta += regularization * hidden_weights
L185 ==
    Stmt(185, 190, [frame EXCEPT !.hidden_weights_delta.reg =
        @ \cup {Cur(frame, "hidden_weights")}])

\* output_weights += -learning_rate * output_weights_delta
L190 ==
    Stmt(190, 191, [frame EXCEPT !.output_weights =
        Descend(frame, "output_weights", frame.output_weights_delta)])

\* output_bias += -learning_rate * output_bias_delta
L191 ==
    Stmt(191, 193, [frame EXCEPT !.output_bias =
        Descend(frame, "output_bias", frame.output_bias_delta)])

\* hidden_weights += -learning_rate * hidden_weights_delta
L193 ==
    Stmt(193, 194, [frame EXCEPT !.hidden_weights =
        Descend(frame, "hidden_weights", frame.hidden_weights_delta)])

\* hidden_bias += -learning_rate * hidden_bias_delta
L194 ==
    Stmt(194, 196, [frame EXCEPT !.hidden_bias =
        Descend(frame, "hidden_bias", frame.hidden_bias_delta)])

\* model = {"HW": ..., "HB": ..., "OW": ..., "OB": ...}
L196 == Stmt(196, 205, [frame EXCEPT !.model = {"HW", "HB", "OW", "OB"}])

\* if i % (epochs / 20) == 0: the plots are redrawn (they change no array)
L205 == Stmt(205, 212, frame)

\* test_loss.append(cross_entropy(model, X_test, Y_test, regularization))
L212 ==
    Stmt(212, 213, [frame EXCEPT !.test_loss =
        Append(@, {Cur(frame, p) : p \in Params})])

\* train_loss.append(cross_entropy(model, X_train, Y_train, regularization))
L213 ==
    Stmt(213, 163, [frame EXCEPT !.train_loss =
        Append(@, {Cur(frame, p) : p \in Params})])

NextBuild ==
    \/ L131 \/ L136 \/ L142 \/ L163_Iterate \/ L163_Exit
    \/ L165 \/ L166 \/ L167 \/ L168
    \/ L171 \/ L172 \/ L173 \/ L174 \/ L177 \/ L178 \/ L179
    \/ L184 \/ L185
    \/ L190 \/ L191 \/ L193 \/ L194
    \/ L196 \/ L205 \/ L212 \/ L213

SpecBuild == InitBuild /\ [][NextBuild]_vars

IsPrefix(s, t) == Len(s) <= Len(t) /\ \A k \in 1..Len(s) : s[k] = t[k]

IterationOrder == <<"forward", "backward", "regularize", "update">>

\* C2: build_model trains one two-layer network (tanh hidden layer, softmax
\* output layer) for exactly `epochs` iterations, none when epochs = 0; each
\* iteration runs, in this order, one forward pass, one backward pass, the
\* regularization of the two weight gradients and one gradient-descent update
\* of the four parameter arrays.
C2_TrainsForEpochsIterations ==
    /\ IdleBuild \/
       /\ IsPrefix(frame.log, IterationOrder)
       \* the forward pass: affine, tanh, affine, softmax
       /\ pc \in 171..172 =>
             /\ frame.hidden_values.op = "affine"
             /\ frame.hidden_activations.op = "tanh"
             /\ frame.output_values.op = "affine"
             /\ frame.probs.op = "softmax"
       \* before the update: no array has been updated in this iteration, the
       \* two weight gradients are regularized, the two bias gradients are not
       /\ pc = 190 =>
             /\ frame.log = <<"forward", "backward", "regularize">>
             /\ \A p \in Params : frame[p].ver = frame.i - 1
             /\ frame.output_weights_delta.reg # {}
             /\ frame.hidden_weights_delta.reg # {}
             /\ frame.output_bias_delta.reg = {}
             /\ frame.hidden_bias_delta.reg = {}
       \* after the update: each of the four arrays has been updated once
       /\ pc \in {196, 205, 212, 213} =>
             /\ frame.log = IterationOrder
             /\ \A p \in Params : frame[p].ver = frame.i
       \* at the return: epochs iterations
       /\ pc = 214 =>
             /\ frame.iterations = frame.epochs
             /\ \A p \in Params : frame[p].ver = frame.epochs
             /\ Len(frame.train_loss) = frame.epochs
             /\ Len(frame.test_loss) = frame.epochs

\* build_model returns from a call that ran two iterations or more.
C2_Witness == pc = 214 /\ frame.epochs >= 2 /\ frame.iterations >= 2
(***************************************************************************)
(* The training cell of the TensorFlow notebook (3.FFN_Intro_Tensorflow,   *)
(* lines 313-397), statement by statement.  The value of the variables of  *)
(* the session (the weights and biases of layer-1) is modelled by how it   *)
(* came about: the draw of the initializer (seed) and the feeds of the     *)
(* gradient steps applied since (steps).                                   *)
(***************************************************************************)

\* The number of epochs the model runs for num_epochs = 1000.
NumEpochsTF == 4

\* The draws of the random initializer that are told apart.
MaxSeeds == 3

Uninitialized == [initialized |-> FALSE]

Initialized(seed) == [initialized |-> TRUE, seed |-> seed, steps |-> << >>]

\* sess.run(fetches, feed_dict) on the variables w: what the variables hold
\* afterwards.  Only train_op (optimizer.apply_gradients) assigns to them.
SessRun(fetches, feed, w) ==
    IF "train_op" \in fetches /\ w.initialized
    THEN [w EXCEPT !.steps = Append(@, feed)]
    ELSE w

\* fetches_valid = [train_op, cross_entropy, accuracy]
FetchesValidTraining == {"train_op", "cross_entropy", "accuracy"}

\* fetches_train = [train_op, cross_entropy]
FetchesTrain == {"train_op", "cross_entropy"}

\* fetches_valid = [cross_entropy, accuracy]
FetchesValid == {"cross_entropy", "accuracy"}

\* fetches_test = [cross_entropy, accuracy]
FetchesTest == {"cross_entropy", "accuracy"}

\* A statement of the cell that runs nothing in the session.
TStmt(line, next, f) ==
    /\ pc = line
    /\ frame' = f
    /\ pc' = next
    /\ UNCHANGED <<cellVars, graph, sess, run>>

\* A statement of the cell that calls sess.run(fetches, feed).
TRun(line, next, fetches, feed, f) ==
    /\ pc = line
    /\ sess' = SessRun(fetches, feed, sess)
    /\ run' = [n |-> run.n + 1, fetches |-> fetches, feed |-> feed]
    /\ frame' = f
    /\ pc' = next
    /\ UNCHANGED <<cellVars, graph>>

InitTFTrain ==
    /\ IdleCells
    /\ graph = << >>
    /\ run = NoRun
    /\ sess = Uninitialized
    /\ pc = 324
    /\ frame = [num_epochs |-> 0, e |-> -1,
                train_cost |-> << >>, val_cost |-> << >>, val_acc |-> << >>,
                feed_dict_train |-> "none", fetches_train |-> {},
                feed_dict_valid |-> "none", fetches_valid |-> {},
                feed_dict_test |-> "none", fetches_test |-> {},
                test_cost |-> << >>]

\* num_epochs = 1000; train_cost, val_cost, val_acc = [],[],[];
\* with tf.Session(...) as sess:
T324 == TStmt(324, 334, [frame EXCEPT !.num_epochs = NumEpochsTF])

\* sess.run(init): the initializers draw the weights
T334 ==
    /\ pc = 334
    /\ \E seed \in 1..MaxSeeds : sess' = Initialized(seed)
    /\ run' = [n |-> run.n + 1, fetches |-> {"init"}, feed |-> "none"]
    /\ pc' = 335
    /\ UNCHANGED <<cellVars, graph, frame>>

\* utils.plot_decision_boundary(lambda x: pred(x, sess), X_val, Y_val):
\* pred runs [output] on a grid spanning X_val
T335 == TRun(335, 339, {"output"}, "grid(X_val)", frame)

\* for e in range(num_epochs): the next epoch starts ...
T339_Iterate ==
    /\ frame.e + 1 < frame.num_epochs
    /\ TStmt(339, 343, [frame EXCEPT !.e = frame.e + 1])

\* ... or the range is exhausted
T339_Exit ==
    /\ ~(frame.e + 1 < frame.num_epochs)
    /\ TStmt(339, 375, frame)

\* feed_dict_train = {input_placeholder: X_train, y: onehot(Y_train)}
T343 == TStmt(343, 347, [frame EXCEPT !.feed_dict_train = "X_train"])

T347 == TStmt(347, 350, [frame EXCEPT !.fetches_train = FetchesTrain])

\* res = sess.run(fetches=fetches_train, feed_dict=feed_dict_train)
\* train_cost += [res[1]]
T350 ==
    TRun(350, 356, frame.fetches_train, frame.feed_dict_train,
         [frame EXCEPT !.train_cost = Append(@, frame.feed_dict_train)])

\* feed_dict_valid = {input_placeholder: X_val, y: onehot(Y_val)}
T356 == TStmt(356, 359, [frame EXCEPT !.feed_dict_valid = "X_val"])

T359 == TStmt(359, 362, [frame EXCEPT !.fetches_valid = FetchesValid])

\* res = sess.run(fetches=fetches_valid, feed_dict=feed_dict_valid)
\* val_cost += [res[0]]; val_acc += [res[1]]
T362 ==
    TRun(362, 366, frame.fetches_valid, frame.feed_dict_valid,
         [frame EXCEPT !.val_cost = Append(@, frame.feed_dict_valid),
                       !.val_acc = Append(@, frame.feed_dict_valid)])

\* if e % 100 == 0: print(...); if e % (num_epochs - 200) == 0: clear_output()
T366 == TStmt(366, 339, frame)

\* feed_dict_test = {input_placeholder: X_test, y: onehot(Y_test)}
T375 == TStmt(375, 378, [frame EXCEPT !.feed_dict_test = "X_test"])

T378 == TStmt(378, 381, [frame EXCEPT !.fetches_test = FetchesTest])

\* res = sess.run(fetches=fetches_test, feed_dict=feed_dict_test)
T381 ==
    TRun(381, 388, frame.fetches_test, frame.feed_dict_test,
         [frame EXCEPT !.test_cost = <<frame.feed_dict_test>>])

\* utils.plot_decision_boundary(lambda x: pred(x, sess), X_test, Y_test)
T388 == TRun(388, 391, {"output"}, "grid(X_test)", frame)

NextTFTrain ==
    \/ T324 \/ T334 \/ T335 \/ T339_Iterate \/ T339_Exit
    \/ T343 \/ T347 \/ T350 \/ T356 \/ T359 \/ T362 \/ T366
    \/ T375 \/ T378 \/ T381 \/ T388

SpecTFTrain == InitTFTrain /\ [][NextTFTrain]_vars

TrainingFeeds == {"X_train"}

\* C3: in the training cell the validation set and the test set are never
\* used for training: no run that fetches train_op is fed with them, every
\* validation run and the test run leave the weights and biases unchanged,
\* and only runs fed with X_train change them.
C3_OnlyTrainingDataTrains ==
    [][ run'.n # run.n =>
          /\ "train_op" \in run'.fetches => run'.feed \in TrainingFeeds
          /\ run'.feed \notin TrainingFeeds /\ sess.initialized => sess' = sess
          /\ sess'.initialized =>
                \A k \in 1..Len(sess'.steps) : sess'.steps[k] \in TrainingFeeds
      ]_vars

\* The test run has been made after training steps on X_train and validation
\* runs in between.
C3_Witness ==
    /\ pc = 388
    /\ run.feed = "X_test"
    /\ sess.initialized
    /\ Len(sess.steps) >= 2
    /\ Len(frame.val_cost) >= 2
(***************************************************************************)
(* The TensorFlow training cell of the Keras notebook (4.FFN_Intro_Keras,  *)
(* lines 227-332): per epoch a training loop over the training batches, a  *)
(* loop that evaluates the network on the training batches and a loop that *)
(* evaluates it on the validation batches.  It uses the session of the     *)
(* cell before it, whose variables are initialised.                        *)
(***************************************************************************)

\* The number of epochs the model runs for num_epochs = 100.
NumEpochsKeras == 2

\* The sizes the model uses for x_train (1000 samples), x_valid (500 samples)
\* and batch_size (100).
TrainSamples == 4

ValidSamples == 3

BatchSize == 2

\* idx = range(i * batch_size, (i + 1) * batch_size); x_batch = data[idx]
Batch(data, i, batch_size) ==
    [data |-> data, idx |-> (i * batch_size)..((i + 1) * batch_size - 1)]

\* fetches_eval_train = [train_op, output]
FetchesEvalTraining == {"train_op", "output"}

\* fetches_eval_train = [output]   (train-evaluation loop)
FetchesEvalTrain == {"output"}

\* fetches_eval_train = [output]   (validation loop)
FetchesEvalValid == {"output"}

InitKerasTrain ==
    /\ IdleCells
    /\ graph = << >>
    /\ run = NoRun
    /\ \E seed \in 1..MaxSeeds : sess = Initialized(seed)
    /\ pc = 231
    /\ frame = [batch_size |-> 0, num_epochs |-> 0,
                num_batches_train |-> 0, num_batches_valid |-> 0,
                epoch |-> -1, i |-> -1, next_epoch |-> 0, next_i |-> 0,
                x_batch |-> "none",
                feed_dict_train |-> "none", fetches_train |-> {},
                feed_dict_eval_train |-> "none", fetches_eval_train |-> {},
                loss |-> 0,
                \* history: the variables as the cell without its two
                \* evaluation loops would have them
                without_eval |-> sess]

\* batch_size = 100; num_epochs = 100; num_batches_train = ... // batch_size
K231 ==
    TStmt(231, 247, [frame EXCEPT !.batch_size = BatchSize,
                                  !.num_epochs = NumEpochsKeras,
                                  !.num_batches_train = TrainSamples \div BatchSize,
                                  !.num_batches_valid = ValidSamples \div BatchSize,
                                  !.next_epoch = 0])

\* for epoch in range(num_epochs):
K247_Iterate ==
    /\ frame.next_epoch < frame.num_epochs
    /\ TStmt(247, 249, [frame EXCEPT !.epoch = frame.next_epoch,
                                     !.next_epoch = frame.next_epoch + 1])

K247_Exit ==
    /\ ~(frame.next_epoch < frame.num_epochs)
    /\ TStmt(247, 328, frame)

\* cur_loss = 0
K249 == TStmt(249, 250, [frame EXCEPT !.next_i = 0])

\* for i in range(num_batches_train):      (training loop)
K250_Iterate ==
    /\ frame.next_i < frame.num_batches_train
    /\ TStmt(250, 251, [frame EXCEPT !.i = frame.next_i,
                                     !.next_i = frame.next_i + 1])

K250_Exit ==
    /\ ~(frame.next_i < frame.num_batches_train)
    /\ TStmt(250, 267, frame)

\* idx = range(...); x_batch = x_train[idx]; target_batch = targets_train[idx]
K251 ==
    TStmt(251, 258, [frame EXCEPT !.x_batch =
                        Batch("x_train", frame.i, frame.batch_size)])

\* feed_dict_train = {input_placeholder: x_batch, target_placeholder: ...}
K258 == TStmt(258, 263, [frame EXCEPT !.feed_dict_train = frame.x_batch])

\* fetches_train = [train_op, loss_tn]
K263 == TStmt(263, 264, [frame EXCEPT !.fetches_train = {"train_op", "loss_tn"}])

\* _, batch_loss = sess.run(fetches=fetches_train, feed_dict=feed_dict_train)
K264 ==
    TRun(264, 250, frame.fetches_train, frame.feed_dict_train,
         [frame EXCEPT !.without_eval =
             SessRun(frame.fetches_train, frame.feed_dict_train, @)])

\* loss.append(cur_loss / batch_size); the confusion matrices are created
K267 == TStmt(267, 273, [frame EXCEPT !.loss = @ + 1, !.next_i = 0])

\* for i in range(num_batches_train):      (train-evaluation loop)
K273_Iterate ==
    /\ frame.next_i < frame.num_batches_train
    /\ TStmt(273, 274, [frame EXCEPT !.i = frame.next_i,
                                     !.next_i = frame.next_i + 1])

K273_Exit ==
    /\ ~(frame.next_i < frame.num_batches_train)
    /\ TStmt(273, 295, frame)

K274 ==
    TStmt(274, 279, [frame EXCEPT !.x_batch =
                        Batch("x_train", frame.i, frame.batch_size)])

K279 == TStmt(279, 283, [frame EXCEPT !.feed_dict_eval_train = frame.x_batch])

K283 == TStmt(283, 286, [frame EXCEPT !.fetches_eval_train = FetchesEvalTrain])

\* res = sess.run(fetches=fetches_eval_train, feed_dict=feed_dict_eval_train)
K286 ==
    TRun(286, 273, frame.fetches_eval_train, frame.feed_dict_eval_train, frame)

\* confusion_valid = ConfusionMatrix(num_classes)
K295 == TStmt(295, 296, [frame EXCEPT !.next_i = 0])

\* for i in range(num_batches_valid):      (validation loop)
K296_Iterate ==
    /\ frame.next_i < frame.num_batches_valid
    /\ TStmt(296, 297, [frame EXCEPT !.i = frame.next_i,
                                     !.next_i = frame.next_i + 1])

K296_Exit ==
    /\ ~(frame.next_i < frame.num_batches_valid)
    /\ TStmt(296, 316, frame)

K297 ==
    TStmt(297, 302, [frame EXCEPT !.x_batch =
                        Batch("x_valid", frame.i, frame.batch_size)])

K302 == TStmt(302, 306, [frame EXCEPT !.feed_dict_eval_train = frame.x_batch])

K306 == TStmt(306, 309, [frame EXCEPT !.fetches_eval_train = FetchesEvalValid])

K309 ==
    TRun(309, 296, frame.fetches_eval_train, frame.feed_dict_eval_train, frame)

\* the accuracies of the epoch are stored and printed
K316 == TStmt(316, 247, frame)

NextKerasTrain ==
    \/ K231 \/ K247_Iterate \/ K247_Exit \/ K249
    \/ K250_Iterate \/ K250_Exit \/ K251 \/ K258 \/ K263 \/ K264 \/ K267
    \/ K273_Iterate \/ K273_Exit \/ K274 \/ K279 \/ K283 \/ K286 \/ K295
    \/ K296_Iterate \/ K296_Exit \/ K297 \/ K302 \/ K306 \/ K309 \/ K316

SpecKerasTrain == InitKerasTrain /\ [][NextKerasTrain]_vars

\* C4: only the first inner loop trains: the runs of the train-evaluation
\* loop and of the validation loop fetch only `output` and leave every weight
\* unchanged, the weights after each epoch are those the cell without the two
\* evaluation loops has, and no validation batch is fed to train_op.
C4_OnlyFirstLoopTrains ==
    [][ /\ run'.n # run.n /\ pc \in {286, 309} =>
              /\ run'.fetches = {"output"}
              /\ sess' = sess
        /\ run'.n # run.n /\ "train_op" \in run'.fetches =>
              run'.feed.data = "x_train"
        /\ pc' \in {316, 328} => sess' = frame'.without_eval
      ]_vars

\* The second epoch ends: training, train-evaluation and validation runs have
\* been made (the last run was fed a validation batch).
C4_Witness ==
    /\ pc = 316
    /\ frame.epoch = 1
    /\ Len(sess.steps) >= 2
    /\ run.fetches = {"output"}
    /\ run.feed.data = "x_valid"
(***************************************************************************)
(* The two model definitions of the Keras notebook (4.FFN_Intro_Keras):    *)
(* the TensorFlow model cell (129-183) with its training cell (227-332),   *)
(* the Keras import cell (356-361), the Keras model cell (374-405) and the *)
(* fit cell (453-456).  The user executes the cells one at a time, in any  *)
(* order in which the names they read are bound; pc = 0 between cells.     *)
(* The default graph holds the nodes the cells and Keras create in it.     *)
(***************************************************************************)

\* How many models the model builds in one graph before the graph is reset.
MaxKerasBuilds == 3

\* x_train.shape[1]: the 28x28 pixels of an MNIST image.
NumFeatures == 784

NumClasses == 10

NumL1Neurons == 512

None == [none |-> TRUE]

\* reset_default_graph(): a new, empty default graph.
EmptyGraph == [nodes |-> {}, dense |-> 0, activation |-> 0]

\* model.reset_states() on a model of Dense and Activation layers: it resets
\* the states of stateful (recurrent) layers only, and there are none.
ResetStates(g) == g

\* A node of the graph: the variable or op `part` of the n-th layer of a kind,
\* made by TensorFlow calls of the notebook ("tf") or by Keras ("keras").
Node(kind, n, part, by) == [kind |-> kind, n |-> n, part |-> part, by |-> by]

\* ffn_layer(name, inputs, units): tf.get_variable of the weights and biases
\* in the variable scope `name`.
FfnLayerNodes(n) ==
    {Node("layer", n, "weights", "tf"), Node("layer", n, "biases", "tf")}

\* The optimizer Keras makes of the name 'sgd': keras.optimizers.SGD() with
\* its default learning rate.
KerasOptimizer(name) ==
    IF name = "sgd" THEN [kind |-> "sgd", learning_rate |-> "0.01"]
    ELSE [kind |-> name, learning_rate |-> "default"]

\* tf.train.GradientDescentOptimizer(learning_rate=0.1)
TFOptimizer == [kind |-> "sgd", learning_rate |-> "0.1"]

Layer(in, units, activation) ==
    [in |-> in, units |-> units, activation |-> activation]

\* The last layer of the network followed by the activation a.
Activate(layers, a) ==
    [layers EXCEPT ![Len(layers)].activation = a]

\* The number of outputs of the network so far (its inputs when it is empty).
OutDim(layers, inputs) ==
    IF layers = << >> THEN inputs ELSE layers[Len(layers)].units

KStmt(line, next, f, g) ==
    /\ pc = line
    /\ frame' = f
    /\ graph' = g
    /\ pc' = next
    /\ UNCHANGED <<cellVars, sess, run>>

InitKeras ==
    /\ IdleCells
    /\ sess = << >>
    /\ run = NoRun
    /\ graph = EmptyGraph
    /\ pc = 0
    \* the import and data cells have run: x_train is loaded
    /\ frame = [num_features |-> 0, num_classes |-> 0, num_l1_neurons |-> 0,
                batch_size |-> 0, num_epochs |-> 0,
                tfnet |-> None, keras_imported |-> FALSE, model |-> None,
                tf_training |-> None, keras_training |-> None,
                \* history: the models built by the Keras model cell
                builds |-> 0]

\* The user executes a cell: the TensorFlow model cell, ...
StartTFModelCell == pc = 0 /\ KStmt(0, 129, frame, graph)

\* ... the TensorFlow training cell (it reads train_op and sess), ...
StartTFTrainingCell == pc = 0 /\ frame.tfnet # None /\ KStmt(0, 231, frame, graph)

\* ... the Keras import cell, ...
StartKerasImportCell == pc = 0 /\ KStmt(0, 356, frame, graph)

\* ... the Keras model cell (it reads K and model), ...
StartKerasModelCell ==
    /\ pc = 0
    /\ frame.keras_imported
    /\ frame.builds < MaxKerasBuilds
    /\ KStmt(0, 374, frame, graph)

\* ... the fit cell (it reads model, num_epochs and batch_size).
StartFitCell ==
    /\ pc = 0
    /\ frame.model # None
    /\ frame.model.compiled # None
    /\ KStmt(0, 453, frame, graph)

\* reset_default_graph()
F129 == KStmt(129, 131, [frame EXCEPT !.tfnet = None], EmptyGraph)

\* num_features = x_train.shape[1]; num_classes = 10; num_l1_neurons = 512
F131 ==
    KStmt(131, 140, [frame EXCEPT !.num_features = NumFeatures,
                                  !.num_classes = NumClasses,
                                  !.num_l1_neurons = NumL1Neurons], graph)

\* input_placeholder = tf.placeholder(tf.float32, [None, num_features])
F140 ==
    KStmt(140, 145,
          [frame EXCEPT !.tfnet = [inputs |-> frame.num_features,
                                   layers |-> << >>, loss |-> "none",
                                   optimizer |-> None]],
          [graph EXCEPT !.nodes = @ \cup {Node("placeholder", 1, "input", "tf")}])

\* layer1 = ffn_layer('layer-1', input_placeholder, num_l1_neurons)
F145 ==
    KStmt(145, 148,
          [frame EXCEPT !.tfnet.layers =
              Append(@, Layer(OutDim(@, frame.tfnet.inputs),
                              frame.num_l1_neurons, "linear"))],
          [graph EXCEPT !.nodes = @ \cup FfnLayerNodes(1)])

\* layer1_nonlinear = tf.nn.elu(layer1)
HiddenActivationTF == "elu"

F148 ==
    KStmt(148, 150,
          [frame EXCEPT !.tfnet.layers = Activate(@, HiddenActivationTF)],
          graph)

\* layer2 = ffn_layer('layer-2', layer1_nonlinear, num_classes)
F150 ==
    KStmt(150, 153,
          [frame EXCEPT !.tfnet.layers =
              Append(@, Layer(OutDim(@, frame.tfnet.inputs),
                              frame.num_classes, "linear"))],
          [graph EXCEPT !.nodes = @ \cup FfnLayerNodes(2)])

\* output = tf.nn.softmax(layer2)
F153 ==
    KStmt(153, 161,
          [frame EXCEPT !.tfnet.layers = Activate(@, "softmax")], graph)

\* target_placeholder = tf.placeholder(tf.float32, [None, num_classes])
\* cross_entropy = -tf.reduce_sum(target_placeholder * tf.log(output), ...)
\* loss_tn = tf.reduce_mean(cross_entropy)
F161 ==
    KStmt(161, 180,
          [frame EXCEPT !.tfnet.loss = "categorical_crossentropy"],
          [graph EXCEPT !.nodes = @ \cup {Node("placeholder", 2, "target", "tf")}])

\* optimizer = tf.train.GradientDescentOptimizer(learning_rate=0.1)
\* train_op = optimizer.minimize(loss_tn)
F180 ==
    KStmt(180, 0, [frame EXCEPT !.tfnet.optimizer = TFOptimizer], graph)

\* batch_size = 100; num_epochs = 100; the training loops run
F231 ==
    KStmt(231, 0,
          [frame EXCEPT !.batch_size = 100, !.num_epochs = 100,
                        !.tf_training = [net |-> frame.tfnet,
                                         batch_size |-> 100,
                                         num_epochs |-> 100]],
          graph)

\* reset_default_graph()
I356 ==
    KStmt(356, 358, [frame EXCEPT !.builds = 0], EmptyGraph)

\* from keras ... import ...; model = None
I358 ==
    KStmt(358, 0, [frame EXCEPT !.keras_imported = TRUE, !.model = None], graph)

\* session = K.get_session()
M374 == KStmt(374, 375, frame, graph)

\* if model is not None: model.reset_states()
M375 ==
    KStmt(375, 380, frame,
          IF frame.model # None THEN ResetStates(graph) ELSE graph)

\* num_features = x_train.shape[1]; num_classes = 10; num_l1_neurons = 512
\* batch_size = 100; num_epochs = 100
M380 ==
    KStmt(380, 387, [frame EXCEPT !.num_features = NumFeatures,
                                  !.num_classes = NumClasses,
                                  !.num_l1_neurons = NumL1Neurons,
                                  !.batch_size = 100,
                                  !.num_epochs = 100], graph)

\* model = Sequential()
M387 ==
    KStmt(387, 390,
          [frame EXCEPT !.model = [inputs |-> 0, layers |-> << >>,
                                   nodes |-> {}, compiled |-> None],
                        !.builds = @ + 1],
          graph)

\* model.add(Dense(units, [input_dim])): a layer dense_<n> with the variables
\* kernel and bias, n counting the Dense layers made in the graph.
AddDense(f, g, units, input_dim) ==
    LET n == g.dense + 1
        new == {Node("dense", n, "kernel", "keras"),
                Node("dense", n, "bias", "keras")}
    IN  [frame |-> [f EXCEPT !.model.inputs =
                                 IF f.model.layers = << >> THEN input_dim ELSE @,
                             !.model.layers =
                                 Append(@, Layer(OutDim(@, input_dim), units,
                                                 "linear")),
                             !.model.nodes = @ \cup new],
         graph |-> [g EXCEPT !.dense = n, !.nodes = @ \cup new]]

\* model.add(Activation(a)): a layer activation_<n> without variables.
AddActivation(f, g, a) ==
    LET n == g.activation + 1
        new == {Node("activation", n, "op", "keras")}
    IN  [frame |-> [f EXCEPT !.model.layers = Activate(@, a),
                             !.model.nodes = @ \cup new],
         graph |-> [g EXCEPT !.activation = n, !.nodes = @ \cup new]]

\* model.add(Dense(units=num_l1_neurons, input_dim=num_features))
M390 ==
    LET r == AddDense(frame, graph, frame.num_l1_neurons, frame.num_features)
    IN  KStmt(390, 393, r.frame, r.graph)

\* model.add(Activation('relu'))
HiddenActivationKeras == "relu"

M393 ==
    LET r == AddActivation(frame, graph, HiddenActivationKeras)
    IN  KStmt(393, 396, r.frame, r.graph)

\* model.add(Dense(units=num_classes))
M396 ==
    LET r == AddDense(frame, graph, frame.num_classes, 0)
    IN  KStmt(396, 399, r.frame, r.graph)

\* model.add(Activation('softmax'))
M399 ==
    LET r == AddActivation(frame, graph, "softmax")
    IN  KStmt(399, 403, r.frame, r.graph)

\* model.compile(loss='categorical_crossentropy', optimizer='sgd', ...)
M403 ==
    KStmt(403, 0,
          [frame EXCEPT !.model.compiled =
              [loss |-> "categorical_crossentropy",
               optimizer |-> KerasOptimizer("sgd")]],
          graph)

\* model.fit(x_train, ..., epochs=num_epochs, batch_size=batch_size)
X453 ==
    KStmt(453, 0,
          [frame EXCEPT !.keras_training =
              [net |-> [inputs |-> frame.model.inputs,
                        layers |-> frame.model.layers,
                        loss |-> frame.model.compiled.loss,
                        optimizer |-> frame.model.compiled.optimizer],
               batch_size |-> frame.batch_size,
               num_epochs |-> frame.num_epochs]],
          graph)

NextKeras ==
    \/ StartTFModelCell \/ StartTFTrainingCell \/ StartKerasImportCell
    \/ StartKerasModelCell \/ StartFitCell
    \/ F129 \/ F131 \/ F140 \/ F145 \/ F148 \/ F150 \/ F153 \/ F161 \/ F180
    \/ F231
    \/ I356 \/ I358
    \/ M374 \/ M375 \/ M380 \/ M387 \/ M390 \/ M393 \/ M396 \/ M399 \/ M403
    \/ X453

SpecKeras == InitKeras /\ [][NextKeras]_vars

KerasNodes(g) == {n \in g.nodes : n.by = "keras"}

\* C5: the Keras model is the same network, trained with the same parameters,
\* as the TensorFlow implementation: same layer sizes (num_features -> 512 ->
\* 10), same hidden activation, softmax output, cross-entropy loss, SGD with
\* the same learning rate, same batch size and number of epochs.
C5_KerasSameAsTensorFlow ==
    (pc = 0 /\ frame.tf_training # None /\ frame.keras_training # None) =>
        frame.keras_training = frame.tf_training

\* Both networks have been trained.
C5_BothTrained ==
    pc = 0 /\ frame.tf_training # None /\ frame.keras_training # None

\* C8: after any number of executions of the Keras model cell, the graph
\* holds only the layers and variables of the most recently built model.
C8_GraphHoldsOnlyLastModel ==
    (pc = 0 /\ frame.model # None /\ frame.model.compiled # None) =>
        KerasNodes(graph) \subseteq frame.model.nodes

\* The Keras model cell has been executed twice in a row.
C8_ExecutedTwice ==
    pc = 0 /\ frame.builds = 2 /\ frame.model # None /\ frame.model.compiled # None
(***************************************************************************)
(* The model cell of the lab notebook (4.lab1_Keras_basics, lines          *)
(* 161-227) with the train function it calls (133-149), statement by       *)
(* statement.  The user sets `method` in the first line and executes the   *)
(* cell, any number of times in one kernel: the globals an execution       *)
(* binds stay bound for the next one.  A tensor is modelled by the graph   *)
(* it belongs to, the placeholder it is computed from and the layers       *)
(* applied to that placeholder in turn.                                    *)
(***************************************************************************)

\* How many times the model executes the cell in one kernel.
LabMaxRuns == 3

\* The iterations the model runs for max_epoch = 250.
LabMaxEpoch == 12

\* batch_size = 64
LabBatchSize == 64

\* shape=(None, 784) of img
ImgDim == 784

\* shape=(None, 10) of labels
LabelDim == 10

\* A name that is not bound (a global before its first assignment, a local
\* outside the call).
Unbound == [unbound |-> TRUE]

\* tf.reset_default_graph(): the id-th default graph of the kernel, empty.
NewGraph(id) == [id |-> id, placeholders |-> {}, variables |-> {}]

\* tf.placeholder(tf.float32, shape=(None, dim), name=name) in the graph g
Placeholder(g, name, dim) ==
    [graph |-> g.id, on |-> name, dim |-> dim, net |-> << >>]

WithPlaceholder(g, name) == [g EXCEPT !.placeholders = @ \cup {name}]

\* Dense(units, activation=activation, name=name): a layer, not yet built.
Dense(units, activation, name) ==
    [name |-> name, units |-> units, activation |-> activation]

\* layer(t): the output of the layer on the tensor t.
Apply(layer, t) ==
    [t EXCEPT !.dim = layer.units,
              !.net = Append(@, [name |-> layer.name, in |-> t.dim,
                                 units |-> layer.units,
                                 activation |-> layer.activation])]

\* The first call of a layer builds it: add_weight makes its kernel and its
\* bias, variables of the graph under the layer's name (made unique by a
\* count when the graph has variables of that name already).
Built(g, layer) ==
    LET n == Cardinality({v \in g.variables :
                               v.layer = layer.name /\ v.part = "kernel"})
    IN  [g EXCEPT !.variables = @ \cup
            {[layer |-> layer.name, part |-> "kernel", n |-> n],
             [layer |-> layer.name, part |-> "bias", n |-> n]}]

\* Sequential(): a model without layers.
Sequential == [layers |-> << >>, inputs |-> Unbound, outputs |-> Unbound]

\* model.add(layer) with input_dim (0 when not given): the first layer makes
\* the model's own input placeholder '<name>_input'; every layer is called on
\* the model's output so far, which builds it.
InputOfSequential(m, g, layer, input_dim) ==
    IF m.layers = << >>
    THEN Placeholder(g, layer.name \o "_input", input_dim)
    ELSE m.outputs

Add(m, g, layer, input_dim) ==
    LET in == InputOfSequential(m, g, layer, input_dim)
    IN  [layers |-> Append(m.layers, layer),
         inputs |-> IF m.layers = << >> THEN in ELSE m.inputs,
         outputs |-> Apply(layer, in)]

GraphAfterAdd(m, g, layer) ==
    Built(IF m.layers = << >>
          THEN WithPlaceholder(g, layer.name \o "_input") ELSE g, layer)

\* The layers applied to t one after the other (they are built already and
\* share their weights with the first application).
RECURSIVE ApplyAll(_, _)
ApplyAll(layers, t) ==
    IF layers = << >> THEN t
    ELSE ApplyAll(Tail(layers), Apply(Head(layers), t))

\* model.output in the place of model(t): the output on the model's own input.
ModelOutput(m, t) == m.outputs

\* model(t): the model called on the tensor t.
CallModel(m, t) == ApplyAll(m.layers, t)

\* Input(tensor=t): the tensor t as the input of a model.
Input(t) == t

\* Model(inputs=inputs, outputs=outputs)
Model(inputs, outputs) ==
    [layers |-> [k \in 1..Len(outputs.net) |->
                    Dense(outputs.net[k].units, outputs.net[k].activation,
                          outputs.net[k].name)],
     inputs |-> inputs, outputs |-> outputs]

\* K.mean(categorical_accuracy(y_true, y_pred)) and
\* tf.reduce_mean(categorical_crossentropy(y_true, y_pred))
Metric(op, y_true, y_pred) ==
    [op |-> op, y_true |-> y_true, y_pred |-> y_pred]

\* tf.train.GradientDescentOptimizer(0.5)
LabOptimizer == [kind |-> "sgd", learning_rate |-> "0.5"]

\* optimizer.minimize(loss): over the trainable variables of the graph
Minimize(optimizer, loss, g) ==
    [op |-> "minimize", loss |-> loss, optimizer |-> optimizer,
     var_list |-> g.variables]

\* The placeholders a fetch is computed from.
Needs(op) == {op.y_true.on, op.y_pred.on}

\* feed_dict={img: ..., labels: ...}
Feed(f, data) == [keys |-> {f.img.on, f.labels.on}, data |-> data]

\* The locals of train outside a call of it.
NoTrainLocals == [init_op |-> Unbound, i |-> -1, batch |-> Unbound,
                  accuracy |-> Unbound]

\* A statement that raises: the cell stops there, what it bound stays bound.
Raise(line, error) ==
    /\ pc = line
    /\ frame' = [frame EXCEPT !.outcome = error, !.train = NoTrainLocals]
    /\ pc' = 0
    /\ sess' = << >>
    /\ UNCHANGED <<cellVars, graph, run>>

\* A statement of train that runs fetches in the session.
BRun(line, next, fetches, feed, f) ==
    /\ pc = line
    /\ sess' = SessRun(fetches, feed, sess)
    /\ run' = [n |-> run.n + 1, fetches |-> fetches, feed |-> feed]
    /\ frame' = f
    /\ pc' = next
    /\ UNCHANGED <<cellVars, graph>>

\* print('{} is not a valid method argument!'.format(method))
ElseBranchSilent(f) == f

ElseBranch(f) ==
    [f EXCEPT !.stdout = Append(@, "is not a valid method argument!")]

\* What an execution of the cell made, the graph it was made in left out.
Strip(t) == [on |-> t.on, dim |-> t.dim, net |-> t.net]

StripOp(op) == Metric(op.op, Strip(op.y_true), Strip(op.y_pred))

Result(f) ==
    [preds |-> Strip(f.preds),
     acc_value |-> StripOp(f.acc_value),
     loss |-> StripOp(f.loss),
     train_op |-> [f.train_op EXCEPT !.loss = StripOp(@)],
     steps |-> f.steps,
     evals |-> f.evals]

InitLab ==
    /\ IdleCells
    /\ sess = << >>
    /\ run = NoRun
    /\ graph = NewGraph(0)
    /\ pc = 0
    \* the import, data and train cells have run
    /\ frame = [method |-> 0, img |-> Unbound, labels |-> Unbound,
                x |-> Unbound, model |-> Unbound, input_layer |-> Unbound,
                preds |-> Unbound, acc_value |-> Unbound, loss |-> Unbound,
                optimizer |-> Unbound, train_op |-> Unbound,
                graph_def |-> Unbound,
                train |-> NoTrainLocals,
                stdout |-> << >>, outcome |-> "none",
                \* history: the executions so far, the gradient steps and
                \* evaluations of the last call of train, and what the
                \* completed executions made, by method
                runs |-> 0, steps |-> << >>, evals |-> << >>,
                built |-> [m \in 1..3 |-> Unbound]]

\* The user executes the cell.
StartLabModelCell ==
    /\ pc = 0
    /\ frame.runs < LabMaxRuns
    /\ KStmt(0, 161, [frame EXCEPT !.runs = @ + 1, !.stdout = << >>,
                                   !.outcome = "running",
                                   !.steps = << >>, !.evals = << >>], graph)

\* method = 1, or what the user has written in its place
B161 == \E m \in Methods : KStmt(161, 162, [frame EXCEPT !.method = m], graph)

B162 == KStmt(162, 165, [frame EXCEPT !.stdout = Append(@, "Method")], graph)

B165 == KStmt(165, 168, frame, NewGraph(frame.runs))

B168 ==
    KStmt(168, 169, [frame EXCEPT !.img = Placeholder(graph, "img", ImgDim)],
          WithPlaceholder(graph, "img"))

B169 ==
    KStmt(169, 171,
          [frame EXCEPT !.labels = Placeholder(graph, "label", LabelDim)],
          WithPlaceholder(graph, "label"))

B171_Method1 == frame.method = 1 /\ KStmt(171, 175, frame, graph)

B171_Else == frame.method # 1 /\ KStmt(171, 179, frame, graph)

B175 ==
    LET layer == Dense(128, "relu", "Dense1")
    IN  KStmt(175, 176, [frame EXCEPT !.x = Apply(layer, frame.img)],
              Built(graph, layer))

B176 ==
    LET layer == Dense(128, "relu", "Dense2")
    IN  KStmt(176, 177, [frame EXCEPT !.x = Apply(layer, frame.x)],
              Built(graph, layer))

B177 ==
    LET layer == Dense(10, "softmax", "prediction")
    IN  KStmt(177, 213, [frame EXCEPT !.preds = Apply(layer, frame.x)],
              Built(graph, layer))

B179_Method2 == frame.method = 2 /\ KStmt(179, 184, frame, graph)

B179_Else == frame.method # 2 /\ KStmt(179, 192, frame, graph)

B184 == KStmt(184, 185, [frame EXCEPT !.model = Sequential], graph)

B185 ==
    LET layer == Dense(128, "relu", "Dense1")
    IN  KStmt(185, 186,
              [frame EXCEPT !.model = Add(frame.model, graph, layer, 784)],
              GraphAfterAdd(frame.model, graph, layer))

B186 ==
    LET layer == Dense(128, "relu", "Dense2")
    IN  KStmt(186, 187,
              [frame EXCEPT !.model = Add(frame.model, graph, layer, 0)],
              GraphAfterAdd(frame.model, graph, layer))

B187 ==
    LET layer == Dense(10, "softmax", "prediction")
    IN  KStmt(187, 189,
              [frame EXCEPT !.model = Add(frame.model, graph, layer, 0)],
              GraphAfterAdd(frame.model, graph, layer))

B189 == KStmt(189, 190, [frame EXCEPT !.stdout = Append(@, "summary")], graph)

B190 ==
    KStmt(190, 213, [frame EXCEPT !.preds = CallModel(frame.model, frame.img)],
          graph)

B192_Method3 == frame.method = 3 /\ KStmt(192, 199, frame, graph)

B192_Else == frame.method # 3 /\ KStmt(192, 208, frame, graph)

B199 == KStmt(199, 200, [frame EXCEPT !.input_layer = Input(frame.img)], graph)

B200 ==
    LET layer == Dense(128, "relu", "Dense1")
    IN  KStmt(200, 201, [frame EXCEPT !.x = Apply(layer, frame.input_layer)],
              Built(graph, layer))

B201 ==
    LET layer == Dense(128, "relu", "Dense2")
    IN  KStmt(201, 202, [frame EXCEPT !.x = Apply(layer, frame.x)],
              Built(graph, layer))

B202 ==
    LET layer == Dense(10, "softmax", "prediction")
    IN  KStmt(202, 204, [frame EXCEPT !.x = Apply(layer, frame.x)],
              Built(graph, layer))

B204 ==
    KStmt(204, 205,
          [frame EXCEPT !.model = Model(frame.input_layer, frame.x)], graph)

B205 == KStmt(205, 206, [frame EXCEPT !.stdout = Append(@, "summary")], graph)

B206 == KStmt(206, 213, [frame EXCEPT !.preds = frame.model.outputs], graph)

B208 == KStmt(208, 213, ElseBranch(frame), graph)

\* acc_value = K.mean(categorical_accuracy(labels, preds)): preds is read
\* first (NameError when it is not bound); the ops are made of tensors of one
\* graph (ValueError of the library otherwise).
B213_NameError == frame.preds = Unbound /\ Raise(213, "NameError")

B213_ValueError ==
    /\ frame.preds # Unbound
    /\ frame.preds.graph # frame.labels.graph
    /\ Raise(213, "ValueError")

B213 ==
    /\ frame.preds # Unbound
    /\ frame.preds.graph = frame.labels.graph
    /\ KStmt(213, 216,
             [frame EXCEPT !.acc_value =
                 Metric("mean(categorical_accuracy)", frame.labels,
                        frame.preds)], graph)

B216 ==
    KStmt(216, 219,
          [frame EXCEPT !.loss =
              Metric("reduce_mean(categorical_crossentropy)", frame.labels,
                     frame.preds)], graph)

B219 == KStmt(219, 220, [frame EXCEPT !.optimizer = LabOptimizer], graph)

B220 ==
    KStmt(220, 224,
          [frame EXCEPT !.train_op =
              Minimize(frame.optimizer, frame.loss, graph)], graph)

\* graph = train(train_op, acc_value): the call
B224 == KStmt(224, 134, frame, graph)

B134 ==
    KStmt(134, 135,
          [frame EXCEPT !.train.init_op = "global_variables_initializer"],
          graph)

\* with tf.Session().as_default() as sess: a session of the default graph
B135 ==
    /\ pc = 135
    /\ sess' = Uninitialized
    /\ pc' = 138
    /\ UNCHANGED <<cellVars, frame, graph, run>>

\* K.set_session(sess)
B138 == KStmt(138, 139, frame, graph)

\* sess.run(init_op): the variables get the initializer's random draw
B139 ==
    /\ pc = 139
    /\ \E seed \in 1..MaxSeeds : sess' = Initialized(seed)
    /\ run' = [n |-> run.n + 1, fetches |-> {"init_op"}, feed |-> "none"]
    /\ pc' = 140
    /\ UNCHANGED <<cellVars, frame, graph>>

B140 ==
    KStmt(140, 141, [frame EXCEPT !.stdout = Append(@, "Epoch : Accuracy")],
          graph)

\* for i in range(max_epoch)
B141_Iterate ==
    /\ frame.train.i + 1 < LabMaxEpoch
    /\ KStmt(141, 142, [frame EXCEPT !.train.i = @ + 1], graph)

B141_Exit ==
    /\ ~(frame.train.i + 1 < LabMaxEpoch)
    /\ KStmt(141, 148, frame, graph)

B142 ==
    KStmt(142, 143,
          [frame EXCEPT !.train.batch =
              [data |-> "train.next_batch", size |-> LabBatchSize]], graph)

\* train_op.run(feed_dict={img:batch[0], labels:batch[1]}): every placeholder
\* the loss is computed from has to be fed (InvalidArgumentError otherwise).
B143 ==
    /\ pc = 143
    /\ LET feed == Feed(frame, frame.train.batch)
       IN  IF Needs(frame.train_op.loss) \subseteq feed.keys
           THEN BRun(143, 144, {"train_op"}, feed,
                     [frame EXCEPT !.steps = Append(@, feed)])
           ELSE Raise(143, "InvalidArgumentError")

B144_Eval == frame.train.i % 10 = 0 /\ KStmt(144, 145, frame, graph)

B144_Skip == frame.train.i % 10 # 0 /\ KStmt(144, 141, frame, graph)

B145 ==
    BRun(145, 147, {"acc_value"}, Feed(frame, "mnist_data.test"),
         [frame EXCEPT !.train.accuracy = "accuracy",
                       !.evals = Append(@, frame.train.i)])

B147 == KStmt(147, 141, [frame EXCEPT !.stdout = Append(@, "accuracy")], graph)

\* the session is closed at the end of the with block;
\* graph = utils.rename_nodes(sess.graph_def, ...)
B148 ==
    /\ pc = 148
    /\ sess' = << >>
    /\ frame' = [frame EXCEPT !.graph_def = [graph |-> graph.id]]
    /\ pc' = 149
    /\ UNCHANGED <<cellVars, graph, run>>

\* return graph
B149 == KStmt(149, 227, [frame EXCEPT !.train = NoTrainLocals], graph)

\* utils.show_graph(graph): the cell completes
B227 ==
    KStmt(227, 0, [frame EXCEPT !.outcome = "ok",
                                !.built[frame.method] = Result(frame)], graph)

NextLab ==
    \/ StartLabModelCell
    \/ B161 \/ B162 \/ B165 \/ B168 \/ B169
    \/ B171_Method1 \/ B171_Else \/ B175 \/ B176 \/ B177
    \/ B179_Method2 \/ B179_Else \/ B184 \/ B185 \/ B186 \/ B187 \/ B189
    \/ B190
    \/ B192_Method3 \/ B192_Else \/ B199 \/ B200 \/ B201 \/ B202 \/ B204
    \/ B205 \/ B206
    \/ B208
    \/ B213_NameError \/ B213_ValueError \/ B213
    \/ B216 \/ B219 \/ B220 \/ B224
    \/ B134 \/ B135 \/ B138 \/ B139 \/ B140 \/ B141_Iterate \/ B141_Exit
    \/ B142 \/ B143 \/ B144_Eval \/ B144_Skip \/ B145 \/ B147 \/ B148 \/ B149
    \/ B227

SpecLab == InitLab /\ [][NextLab]_vars

\* The network of the three methods: 784 inputs, Dense 128 relu 'Dense1',
\* Dense 128 relu 'Dense2', Dense 10 softmax 'prediction'.
TheNetwork ==
    << [name |-> "Dense1", in |-> 784, units |-> 128, activation |-> "relu"],
       [name |-> "Dense2", in |-> 128, units |-> 128, activation |-> "relu"],
       [name |-> "prediction", in |-> 128, units |-> 10,
        activation |-> "softmax"] >>

\* Its trainable variables.
TheVariables ==
    {[layer |-> l, part |-> p, n |-> 0] :
        l \in {"Dense1", "Dense2", "prediction"}, p \in {"kernel", "bias"}}

\* The output of the network on img, and the labels placeholder.
PredsOnImg == [on |-> "img", dim |-> 10, net |-> TheNetwork]

LabelsPlaceholder == [on |-> "label", dim |-> 10, net |-> << >>]

\* C6: methods 1, 2 and 3 build equivalent models: once the branch of the
\* method has run, preds is the output on img of the network 784 -> Dense 128
\* relu 'Dense1' -> Dense 128 relu 'Dense2' -> Dense 10 softmax 'prediction'
\* in the current graph, whose variables are the kernels and biases of these
\* three layers; the accuracy, loss and train ops, the gradient steps and the
\* evaluations of the training loop are the same for any two methods whose
\* execution has completed, and the execution raises nothing.
C6_MethodsBuildEquivalentModels ==
    /\ \A m1, m2 \in 1..3 :
          frame.built[m1] # Unbound /\ frame.built[m2] # Unbound =>
              frame.built[m1] = frame.built[m2]
    /\ frame.method \in 1..3 /\ pc \in ({213, 216, 219, 220, 224, 227}
                                          \cup (134..149)) =>
          /\ frame.preds = [graph |-> graph.id, on |-> "img", dim |-> 10,
                            net |-> TheNetwork]
          /\ graph.variables = TheVariables
    /\ frame.method \in 1..3 => frame.outcome \in {"running", "ok"}
    /\ \A m \in 1..3 : frame.built[m] # Unbound =>
          /\ frame.built[m].preds = PredsOnImg
          /\ frame.built[m].acc_value =
                Metric("mean(categorical_accuracy)", LabelsPlaceholder,
                       PredsOnImg)
          /\ frame.built[m].loss =
                Metric("reduce_mean(categorical_crossentropy)",
                       LabelsPlaceholder, PredsOnImg)
          /\ frame.built[m].train_op.loss = frame.built[m].loss
          /\ frame.built[m].train_op.optimizer = LabOptimizer
          /\ frame.built[m].train_op.var_list = TheVariables
          /\ Len(frame.built[m].steps) = LabMaxEpoch
          /\ \A k \in 1..LabMaxEpoch :
                /\ frame.built[m].steps[k].keys = {"img", "label"}
                /\ frame.built[m].steps[k].data.size = LabBatchSize
          /\ frame.built[m].evals =
                [k \in 1..((LabMaxEpoch + 9) \div 10) |-> 10 * (k - 1)]

\* The cell has been executed to the end with each of the three methods.
C6_Witness ==
    /\ pc = 0
    /\ \A m \in 1..3 : frame.built[m] # Unbound

\* The cell has printed that `method` is not valid.
Reported ==
    \E k \in 1..Len(frame.stdout) :
        frame.stdout[k] = "is not a valid method argument!"

MaxTFBuilds == 3

\* The largest num_features and num_outputs of the model.
MaxDim == 2

\* The largest batch the model feeds.
MaxBatch == 3

\* The values an entry of a fed batch takes in the model.
FedValues == {-1, 2}

\* The default graph left as it is.
KeepDefaultGraph(g) == g

\* reset_default_graph(): a new, empty default graph in the place of g.
ResetDefaultGraph(g) ==
    [id |-> g.id + 1, placeholders |-> {}, variables |-> {}]

\* tf.truncated_normal_initializer(stddev=0.1)
TruncatedNormalInitializer == [kind |-> "truncated_normal", value |-> 0]

\* tf.constant_initializer(value)
ConstantInitializer(value) == [kind |-> "constant", value |-> value]

\* the initializer of the biases, were it tf.constant_initializer(1.0)
BiasesInitializerOne == ConstantInitializer(1)

\* initializer = tf.constant_initializer(0.0)
BiasesInitializer == ConstantInitializer(0)

\* The name of a variable made in tf.variable_scope(scope).
ScopedName(scope, name) == scope \o "/" \o name

\* tf.get_variable(name, shape, initializer) in the variable scope: whether
\* it raises (the graph holds a variable of that name and the scope does not
\* reuse), and the variable it makes.
Exists(g, scope, name) ==
    \E v \in g.variables : v.name = ScopedName(scope, name)

GetVariable(scope, name, shape, initializer, made) ==
    [name |-> ScopedName(scope, name), shape |-> shape,
     initializer |-> initializer, made |-> made]

\* The sum of f[1] .. f[n].
RECURSIVE SumTo(_, _)
SumTo(f, n) == IF n = 0 THEN 0 ELSE f[n] + SumTo(f, n - 1)

\* tf.matmul(a, b) of a [rows, inner] and a [inner, cols] matrix
MatMul(a, b) ==
    [r \in 1..Len(a) |->
        [c \in 1..Len(b[1]) |->
            SumTo([k \in 1..Len(b) |-> a[r][k] * b[k][c]], Len(b))]]

\* m + v: the vector is added to every row of the matrix (broadcasting)
AddBias(m, v) ==
    [r \in 1..Len(m) |-> [c \in 1..Len(m[r]) |-> m[r][c] + v[c]]]

\* The value the initializer gives a variable of the shape, for a draw.
InitialValue(v, seed) ==
    IF v.initializer.kind = "constant"
    THEN [c \in 1..v.shape[1] |-> v.initializer.value]
    ELSE [k \in 1..v.shape[1] |->
             [c \in 1..v.shape[2] |-> ((seed * (k + 2 * c)) % 5) - 2]]

\* The variable of the graph with the name.
VariableNamed(g, name) == CHOOSE v \in g.variables : v.name = name

GStmt(line, next, f, g) ==
    /\ pc = line
    /\ frame' = f
    /\ graph' = g
    /\ pc' = next
    /\ UNCHANGED <<cellVars, sess, run>>

\* The locals of ffn_layer outside a call of it.
NoLayerLocals ==
    [name |-> "", inputs |-> Unbound, input_dimensions |-> 0,
     output_dimensions |-> 0, weight_initializer |-> Unbound,
     weights |-> Unbound, biases |-> Unbound]

InitTFGraph ==
    /\ IdleCells
    /\ sess = << >>
    /\ run = NoRun
    /\ graph = [id |-> 0, placeholders |-> {}, variables |-> {}]
    /\ pc = 0
    \* the import and data cells have run: num_features and num_outputs are
    \* what the data and the user have made them
    /\ \E nf, no \in 1..MaxDim :
          frame = [num_features |-> nf, num_outputs |-> no,
                   input_placeholder |-> Unbound, l_1 |-> Unbound,
                   output |-> Unbound,
                   layer |-> NoLayerLocals,
                   outcome |-> "none",
                   \* history: the executions of the model cell, the batch
                   \* last fed in the session and the value of l_1 for it
                   executions |-> 0, fed |-> << >>, value |-> << >>]

\* The user executes the model cell.
StartTFGraphCell ==
    /\ frame.executions < MaxTFBuilds
    /\ GStmt(0, 111, [frame EXCEPT !.executions = @ + 1,
                                   !.outcome = "running",
                                   !.fed = << >>, !.value = << >>], graph)

G111 == GStmt(111, 115, frame, ResetDefaultGraph(graph))

G115 ==
    GStmt(115, 149,
          [frame EXCEPT !.input_placeholder =
              [graph |-> graph.id, batch |-> "None",
               dim |-> frame.num_features]],
          [graph EXCEPT !.placeholders = @ \cup {"input/Placeholder"}])

\* l_1 = ffn_layer('layer-1', input_placeholder, num_features, num_outputs):
\* the call
G149 ==
    GStmt(149, 128,
          [frame EXCEPT !.layer =
              [NoLayerLocals EXCEPT
                  !.name = "layer-1",
                  !.inputs = frame.input_placeholder,
                  !.input_dimensions = frame.num_features,
                  !.output_dimensions = frame.num_outputs]], graph)

G128 ==
    GStmt(128, 134,
          [frame EXCEPT !.layer.weight_initializer =
              TruncatedNormalInitializer], graph)

\* weights = tf.get_variable('{}-weights'.format(name), ...)
G134 ==
    /\ pc = 134
    /\ LET name == frame.layer.name \o "-weights"
           v == GetVariable(frame.layer.name, name,
                            <<frame.layer.input_dimensions,
                              frame.layer.output_dimensions>>,
                            frame.layer.weight_initializer, frame.executions)
       IN  IF Exists(graph, frame.layer.name, name)
           THEN GStmt(134, 0, [frame EXCEPT !.outcome = "ValueError",
                                            !.layer = NoLayerLocals], graph)
           ELSE GStmt(134, 139, [frame EXCEPT !.layer.weights = v],
                      [graph EXCEPT !.variables = @ \cup {v}])

\* biases = tf.get_variable('{}-biases'.format(name), ...)
G139 ==
    /\ pc = 139
    /\ LET name == frame.layer.name \o "-biases"
           v == GetVariable(frame.layer.name, name,
                            <<frame.layer.output_dimensions>>,
                            BiasesInitializer, frame.executions)
       IN  IF Exists(graph, frame.layer.name, name)
           THEN GStmt(139, 0, [frame EXCEPT !.outcome = "ValueError",
                                            !.layer = NoLayerLocals], graph)
           ELSE GStmt(139, 144, [frame EXCEPT !.layer.biases = v],
                      [graph EXCEPT !.variables = @ \cup {v}])

\* return tf.matmul(inputs, weights) + biases: the inner dimensions have to
\* agree (ValueError of the library otherwise); the result is bound to l_1
G144 ==
    /\ pc = 144
    /\ IF frame.layer.inputs.dim = frame.layer.weights.shape[1]
       THEN GStmt(144, 156,
                  [frame EXCEPT
                      !.l_1 = [graph |-> graph.id, batch |-> "None",
                               dim |-> frame.layer.weights.shape[2],
                               inputs |-> "input/Placeholder",
                               weights |-> frame.layer.weights.name,
                               biases |-> frame.layer.biases.name],
                      !.layer = NoLayerLocals], graph)
       ELSE GStmt(144, 0, [frame EXCEPT !.outcome = "ValueError",
                                        !.layer = NoLayerLocals], graph)

\* output = tf.nn.softmax(l_1): the cell completes
G156 ==
    GStmt(156, 0, [frame EXCEPT !.output = [softmax |-> frame.l_1],
                                !.outcome = "ok"], graph)

\* The user executes the session cell: sess = tf.Session()
S289 ==
    /\ pc = 0
    /\ frame.outcome = "ok"
    /\ sess' = [graph |-> graph.id, initialized |-> FALSE]
    /\ frame' = [frame EXCEPT !.fed = << >>, !.value = << >>]
    /\ pc' = 290
    /\ UNCHANGED <<cellVars, graph, run>>

\* sess.run(tf.global_variables_initializer())
S290 ==
    /\ pc = 290
    /\ \E seed \in 1..MaxSeeds :
          sess' = [graph |-> sess.graph, initialized |-> TRUE,
                   values |-> [v \in graph.variables |->
                                  InitialValue(v, seed)]]
    /\ pc' = 0
    /\ UNCHANGED <<cellVars, frame, graph, run>>

\* sess.run with feed_dict = {input_placeholder: X_in} of a fetch computed
\* from l_1: the value of l_1 for a batch of any size
P319 ==
    /\ pc = 0
    /\ frame.outcome = "ok"
    /\ sess # << >>
    /\ sess.initialized
    /\ sess.graph = frame.l_1.graph
    /\ \E batch \in 1..MaxBatch :
       \E X_in \in [1..batch -> [1..frame.input_placeholder.dim -> FedValues]] :
          frame' = [frame EXCEPT
                 !.fed = X_in,
                 !.value = AddBias(
                     MatMul(X_in,
                            sess.values[VariableNamed(graph,
                                                      frame.l_1.weights)]),
                     sess.values[VariableNamed(graph, frame.l_1.biases)])]
    /\ UNCHANGED <<cellVars, pc, graph, sess, run>>

NextTFGraph ==
    \/ StartTFGraphCell
    \/ G111 \/ G115 \/ G149 \/ G128 \/ G134 \/ G139 \/ G144 \/ G156
    \/ S289 \/ S290 \/ P319

SpecTFGraph == InitTFGraph /\ [][NextTFGraph]_vars

\* The variables of the graph with the name.
Named(name) == {v \in graph.variables : v.name = name}

\* C7: the model cell can be executed any number of times in a row: no
\* execution raises, and each leaves a default graph that holds exactly one
\* 'layer-1' weights variable and one 'layer-1' biases variable, both made
\* by that execution (nothing is left over from the earlier ones).
C7_CellCanBeExecutedAgain ==
    /\ frame.outcome # "ValueError"
    /\ pc \in {144, 156} \/ frame.outcome = "ok" =>
          /\ Cardinality(Named("layer-1/layer-1-weights")) = 1
          /\ Cardinality(Named("layer-1/layer-1-biases")) = 1
          /\ Cardinality(graph.variables) = 2
          /\ \A v \in graph.variables : v.made = frame.executions
          /\ graph.id = frame.executions

\* The model cell has completed for the second time or more.
C7_Witness ==
    /\ pc = 0
    /\ frame.outcome = "ok"
    /\ frame.executions >= 2

\* C9: ffn_layer makes a weight matrix of shape [input_dimensions,
\* output_dimensions] and a bias vector of shape [output_dimensions] that is
\* initialised to zero, and for a fed input of shape [batch,
\* input_dimensions] its result is the [batch, output_dimensions] matrix
\* inputs.W + b, whatever the batch size.
C9_FfnLayerIsInputsTimesWeightsPlusBiases ==
    LET in == frame.num_features
        out == frame.num_outputs
        W == sess.values[VariableNamed(graph, "layer-1/layer-1-weights")]
        b == sess.values[VariableNamed(graph, "layer-1/layer-1-biases")]
    IN  /\ pc \in {139, 144} =>
              frame.layer.weights.shape = <<in, out>>
        /\ pc = 144 =>
              /\ frame.layer.biases.shape = <<out>>
              /\ frame.layer.biases.initializer = ConstantInitializer(0)
        /\ frame.l_1 # Unbound =>
              /\ frame.l_1.batch = "None"
              /\ frame.l_1.dim = out
        /\ frame.fed # << >> =>
              /\ Len(W) = in
              /\ \A k \in 1..in : Len(W[k]) = out
              /\ b = [c \in 1..out |-> 0]
              /\ Len(frame.value) = Len(frame.fed)
              /\ \A r \in 1..Len(frame.fed) :
                    /\ Len(frame.fed[r]) = in
                    /\ Len(frame.value[r]) = out
                    /\ \A c \in 1..out :
                          frame.value[r][c] =
                              SumTo([k \in 1..in |->
                                        frame.fed[r][k] * W[k][c]], in) + b[c]

\* The layer has been run on a batch of two rows or more, for two inputs
\* and two outputs.
C9_Witness ==
    /\ frame.fed # << >>
    /\ Len(frame.fed) >= 2
    /\ frame.num_features >= 2
    /\ frame.num_outputs >= 2
(***************************************************************************)
(* softmax of part_000 (lines 71-73) on a matrix of float64 values.  A     *)
(* float is modelled by its kind (finite, inf, nan) and, when finite, by   *)
(* the fraction num / den.  np.exp is modelled by the power of two, in     *)
(* units of the smallest power that does not underflow: as for float64     *)
(* (where exp(x) is inf above 709.78 and 0 below -745.13) it overflows     *)
(* above a largest argument and underflows below a smallest one.  The      *)
(* rounding of finite results is not modelled.                             *)
(***************************************************************************)

\* The largest x whose exp is finite in the model; -MaxExp is the smallest
\* whose exp is not zero.
MaxExp == 3

\* The largest number of rows of `values` in the model.
MaxRows == 2

\* output_dimensions = 2: the columns of `values`.
OutputDimensions == 2

\* The entries of `values` in the model: all of them finite.
SoftmaxInputs == {-(MaxExp + 1), 0, 1, MaxExp, MaxExp + 1}

Finite(num, den) == [kind |-> "finite", num |-> num, den |-> den]

Inf == [kind |-> "inf", num |-> 0, den |-> 0]

NaN == [kind |-> "nan", num |-> 0, den |-> 0]

\* The largest finite float, in units: exp(MaxExp) is finite, twice it is not.
MaxFinite == 2 ^ (2 * MaxExp + 1) - 1

\* The float that holds the non-negative number n of units.
FloatOf(n) == IF n > MaxFinite THEN Inf ELSE Finite(n, 1)

\* np.exp(x)
Exp(x) ==
    IF x > MaxExp THEN Inf
    ELSE IF x < -MaxExp THEN Finite(0, 1)
    ELSE Finite(2 ^ (x + MaxExp), 1)

\* a + b of two floats that are not negative
FloatAdd(a, b) ==
    IF a.kind = "nan" \/ b.kind = "nan" THEN NaN
    ELSE IF a.kind = "inf" \/ b.kind = "inf" THEN Inf
    ELSE FloatOf(a.num + b.num)

\* a / b of two floats that are not negative (a warning, not an exception,
\* where the result is nan)
FloatDiv(a, b) ==
    IF a.kind = "nan" \/ b.kind = "nan" THEN NaN
    ELSE IF a.kind = "inf" /\ b.kind = "inf" THEN NaN
    ELSE IF a.kind = "inf" THEN Inf
    ELSE IF b.kind = "inf" THEN Finite(0, 1)
    ELSE IF b.num = 0 THEN (IF a.num = 0 THEN NaN ELSE Inf)
    ELSE Finite(a.num, b.num)

\* np.sum(row): the entries added from left to right
RECURSIVE RowSum(_, _)
RowSum(row, n) ==
    IF n = 0 THEN Finite(0, 1) ELSE FloatAdd(RowSum(row, n - 1), row[n])

\* np.exp(values)
ExpScores(values) ==
    [r \in 1..Len(values) |-> [c \in 1..Len(values[r]) |-> Exp(values[r][c])]]

\* exp_scores / np.sum(exp_scores, axis=1, keepdims=True)
Normalized(exp_scores) ==
    [r \in 1..Len(exp_scores) |->
        [c \in 1..Len(exp_scores[r]) |->
            FloatDiv(exp_scores[r][c],
                     RowSum(exp_scores[r], Len(exp_scores[r])))]]

InitSoftmax ==
    /\ IdleOutsideBuild
    /\ pc = 72
    /\ \E rows \in 1..MaxRows :
       \E values \in [1..rows -> [1..OutputDimensions -> SoftmaxInputs]] :
          frame = [values |-> values, exp_scores |-> << >>,
                   result |-> << >>, returned |-> FALSE]

\* exp_scores = np.exp(values)
E72 ==
    /\ pc = 72
    /\ frame' = [frame EXCEPT !.exp_scores = ExpScores(frame.values)]
    /\ pc' = 73
    /\ UNCHANGED otherThanBuild

\* return exp_scores / np.sum(exp_scores, axis=1, keepdims=True)
E73 ==
    /\ pc = 73
    /\ frame' = [frame EXCEPT !.result = Normalized(frame.exp_scores),
                              !.returned = TRUE]
    /\ pc' = 0
    /\ UNCHANGED otherThanBuild

NextSoftmax == E72 \/ E73

SpecSoftmax == InitSoftmax /\ [][NextSoftmax]_vars

\* The sum of the numerators of the entries 1..n of a row.
RECURSIVE NumSum(_, _)
NumSum(row, n) == IF n = 0 THEN 0 ELSE row[n].num + NumSum(row, n - 1)

\* The row is a probability distribution: every entry is a finite number in
\* [0, 1] and the entries sum to 1 (they have one denominator, the row's sum).
IsDistribution(row) ==
    /\ \A c \in 1..Len(row) :
          /\ row[c].kind = "finite"
          /\ row[c].den > 0
          /\ 0 <= row[c].num
          /\ row[c].num <= row[c].den
          /\ row[c].den = row[1].den
    /\ NumSum(row, Len(row)) = row[1].den

\* C11: softmax returns a probability distribution for each row of every
\* finite input matrix: every entry in [0, 1], each row summing to 1, no inf
\* and no nan.
C11_SoftmaxIsDistribution ==
    frame.returned =>
        \A r \in 1..Len(frame.result) : IsDistribution(frame.result[r])

\* softmax has returned for a matrix of two rows that holds an entry whose
\* exp overflows.
C11_Witness ==
    /\ frame.returned
    /\ Len(frame.values) >= 2
    /\ \E r \in 1..Len(frame.values) : \E c \in 1..OutputDimensions :
          frame.values[r][c] > MaxExp
(***************************************************************************)
(* The gradients of an iteration of build_model (SpecBuild) and the        *)
(* parameter values they are computed from.                                *)
(***************************************************************************)

\* The parameters as they are when iteration i starts.
AtStartOfIteration(f) == {<<p, f.i - 1>> : p \in Params}

\* The array d of the frame was computed from the parameters as they were at
\* the start of the iteration, regularization term included.
FromStartOfIteration(f, d) ==
    /\ f[d].set
    /\ f[d].deps \subseteq AtStartOfIteration(f)
    /\ f[d].reg \subseteq AtStartOfIteration(f)

\* C12: in each iteration of build_model the four gradients are computed from
\* the parameter values held at the start of the iteration: the hidden delta
\* uses the output weights as they were before this iteration's update, the
\* regularization terms are those of the weights before the update, no
\* parameter array is modified before all four gradients, regularization
\* included, have been computed, and each parameter is then updated once with
\* the gradient so computed.
C12_GradientsFromStartOfIteration ==
    /\ pc \in {174, 177, 178, 179, 184, 185, 190, 191, 193, 194} =>
          FromStartOfIteration(frame, "output_weights_delta")
    /\ pc \in {177, 178, 179, 184, 185, 190, 191, 193, 194} =>
          FromStartOfIteration(frame, "output_bias_delta")
    /\ pc \in {178, 179, 184, 185, 190, 191, 193, 194} =>
          /\ FromStartOfIteration(frame, "hidden_delta")
          /\ <<"output_weights", frame.i - 1>> \in frame.hidden_delta.deps
    /\ pc \in {179, 184, 185, 190, 191, 193, 194} =>
          /\ FromStartOfIteration(frame, "hidden_weights_delta")
          /\ <<"output_weights", frame.i - 1>>
                \in frame.hidden_weights_delta.deps
    /\ pc \in {184, 185, 190, 191, 193, 194} =>
          /\ FromStartOfIteration(frame, "hidden_bias_delta")
          /\ <<"output_weights", frame.i - 1>> \in frame.hidden_bias_delta.deps
    /\ pc \in {185, 190, 191, 193, 194} =>
          frame.output_weights_delta.reg = {<<"output_weights", frame.i - 1>>}
    /\ pc \in {190, 191, 193, 194} =>
          frame.hidden_weights_delta.reg = {<<"hidden_weights", frame.i - 1>>}
    \* nothing is modified before the first update statement
    /\ pc \in (165..168) \cup (171..179) \cup {184, 185, 190} =>
          \A p \in Params : frame[p].ver = frame.i - 1
    \* the updates: one each, with the gradient of this iteration
    /\ pc \in {196, 205, 212, 213} =>
          \A p \in Params :
             /\ frame[p].ver = frame.i
             /\ frame[p].by.set
             /\ frame[p].by.deps \subseteq AtStartOfIteration(frame)
             /\ frame[p].by.reg \subseteq AtStartOfIteration(frame)

\* The updates of the second iteration have been made: its gradients were
\* computed from the parameters the first iteration left.
C12_Witness ==
    /\ pc = 196
    /\ frame.i = 2
    /\ <<"output_weights", 1>> \in frame.hidden_weights.by.deps
(***************************************************************************)
(* The size of the step of build_model (part_000, lines 171-194) against   *)
(* the loss cross_entropy reports (lines 75-88).  A gradient is modelled   *)
(* as a combination of the per-example gradients: for every example r the  *)
(* coefficient of the gradient of -log probs[r, class], and the            *)
(* coefficient of regularization * parameter.  The loss is modelled the    *)
(* same way: the coefficient of every -log probs[r, class] and of          *)
(* regularization * sum(square(parameter)).  Coefficients are fractions.   *)
(* That probs - onehot is the gradient of -log probs[r, class] in the      *)
(* output values, and the chain rule through the two layers, are taken     *)
(* from calculus; the model follows how the statements scale and add.      *)
(***************************************************************************)

\* The largest number of training examples in the model.
MaxExamples == 3

Weights == {"hidden_weights", "output_weights"}

\* The fraction num / den.
Q(num, den) == [num |-> num, den |-> den]

QEq(a, b) == a.num * b.den = b.num * a.den

QMul(a, b) == Q(a.num * b.num, a.den * b.den)

QAdd(a, b) == Q(a.num * b.den + b.num * a.den, a.den * b.den)

\* The rows of probs: row r is probs[r], nothing subtracted.
ProbsRows(n) == [r \in 1..n |-> [coef |-> Q(1, 1), minus |-> {}]]

\* rows[range(n), Y] -= 1
MinusOneAt(rows, Y) ==
    [r \in 1..Len(rows) |-> [rows[r] EXCEPT !.minus = @ \cup {Y[r]}]]

\* A dot product with, or a sum over, the rows (axis 0): every row enters
\* with its coefficient; no regularization term yet.
OverRows(rows) == [ex |-> rows, w |-> Q(0, 1)]

\* delta += regularization * parameter
PlusRegularization(delta) == [delta EXCEPT !.w = QAdd(@, Q(1, 1))]

\* factor * g for a gradient or a loss g
Scaled(factor, rows) ==
    [r \in 1..Len(rows) |-> [rows[r] EXCEPT !.coef = QMul(factor, @)]]

\* -learning_rate * delta, in units of learning_rate
Step(delta) == [ex |-> Scaled(Q(-1, 1), delta.ex), w |-> QMul(Q(-1, 1), delta.w)]

\* 1. / num_examples
OneOver(num_examples) == Q(1, num_examples)

DStmt(line, next, f) ==
    /\ pc = line
    /\ frame' = f
    /\ pc' = next
    /\ UNCHANGED otherThanBuild

NoArray == [ex |-> << >>, w |-> Q(0, 1)]

InitDescent ==
    /\ IdleOutsideBuild
    /\ pc = 171
    \* the forward pass of an iteration has run on the training data
    /\ \E n \in 1..MaxExamples :
       \E Y \in [1..n -> 0..(OutputDimensions - 1)] :
          frame = [Y_train |-> Y,
                   probs |-> ProbsRows(n),
                   output_delta |-> << >>, hidden_delta |-> << >>,
                   output_weights_delta |-> NoArray,
                   output_bias_delta |-> NoArray,
                   hidden_weights_delta |-> NoArray,
                   hidden_bias_delta |-> NoArray,
                   \* history: what the iteration added to each parameter
                   update |-> [p \in Params |-> NoArray],
                   \* the locals of cross_entropy and what it returned
                   num_examples |-> 0, corect_logprobs |-> << >>,
                   data_loss |-> [ex |-> << >>,
                                  sq |-> [p \in Weights |-> Q(0, 1)]],
                   train_loss |-> [ex |-> << >>,
                                   sq |-> [p \in Weights |-> Q(0, 1)]],
                   returned |-> FALSE]

\* output_delta = probs
D171 == DStmt(171, 172, [frame EXCEPT !.output_delta = frame.probs])

\* output_delta[range(len(X_train)), Y_train] -= 1
D172 ==
    DStmt(172, 173,
          [frame EXCEPT
              !.output_delta = MinusOneAt(frame.output_delta, frame.Y_train),
              !.probs = MinusOneAt(frame.probs, frame.Y_train)])

\* output_weights_delta = (hidden_activations.T).dot(output_delta)
D173 ==
    DStmt(173, 174, [frame EXCEPT !.output_weights_delta =
                                      OverRows(frame.output_delta)])

\* output_bias_delta = np.sum(output_delta, axis=0, keepdims=True)
D174 ==
    DStmt(174, 177, [frame EXCEPT !.output_bias_delta =
                                      OverRows(frame.output_delta)])

\* hidden_delta = output_delta.dot(output_weights.T)
\*                * (1 - np.power(hidden_activations, 2)): row by row
D177 == DStmt(177, 178, [frame EXCEPT !.hidden_delta = frame.output_delta])

\* hidden_weights_delta = np.dot(X_train.T, hidden_delta)
D178 ==
    DStmt(178, 179, [frame EXCEPT !.hidden_weights_delta =
                                      OverRows(frame.hidden_delta)])

\* hidden_bias_delta = np.sum(hidden_delta, axis=0)
D179 ==
    DStmt(179, 184, [frame EXCEPT !.hidden_bias_delta =
                                      OverRows(frame.hidden_delta)])

\* output_weights_delta += regularization * output_weights
D184 ==
    DStmt(184, 185, [frame EXCEPT !.output_weights_delta =
                                      PlusRegularization(@)])

\* hidden_weights_delta += regularization * hidden_weights
D185 ==
    DStmt(185, 190, [frame EXCEPT !.hidden_weights_delta =
                                      PlusRegularization(@)])

\* output_weights += -learning_rate * output_weights_delta
D190 ==
    DStmt(190, 191, [frame EXCEPT !.update["output_weights"] =
                                      Step(frame.output_weights_delta)])

\* output_bias += -learning_rate * output_bias_delta
D191 ==
    DStmt(191, 193, [frame EXCEPT !.update["output_bias"] =
                                      Step(frame.output_bias_delta)])

\* hidden_weights += -learning_rate * hidden_weights_delta
D193 ==
    DStmt(193, 194, [frame EXCEPT !.update["hidden_weights"] =
                                      Step(frame.hidden_weights_delta)])

\* hidden_bias += -learning_rate * hidden_bias_delta
D194 ==
    DStmt(194, 213, [frame EXCEPT !.update["hidden_bias"] =
                                      Step(frame.hidden_bias_delta)])

\* train_loss.append(cross_entropy(model, X_train, Y_train, regularization)):
\* the call; probs = predict(model, X, get_probs=True)
D213 ==
    DStmt(213, 79, [frame EXCEPT !.probs = ProbsRows(Len(frame.Y_train))])

\* num_examples = len(Y)
H79 == DStmt(79, 82, [frame EXCEPT !.num_examples = Len(frame.Y_train)])

\* corect_logprobs = -np.log(probs[range(num_examples), Y])
H82 ==
    DStmt(82, 83,
          [frame EXCEPT !.corect_logprobs =
              [r \in 1..frame.num_examples |->
                  [coef |-> frame.probs[r].coef,
                   minus |-> {frame.Y_train[r]}]]])

\* data_loss = np.sum(corect_logprobs)
H83 ==
    DStmt(83, 86, [frame EXCEPT !.data_loss.ex = frame.corect_logprobs])

\* data_loss += (regularization / 2) * (np.sum(np.square(hidden_weights))
\*                                      + np.sum(np.square(output_weights)))
H86 ==
    DStmt(86, 88, [frame EXCEPT !.data_loss.sq =
                      [p \in Weights |-> QAdd(@[p], Q(1, 2))]])

\* return 1. / num_examples * data_loss
H88 ==
    LET factor == OneOver(frame.num_examples)
    IN  DStmt(88, 0,
              [frame EXCEPT
                  !.train_loss =
                      [ex |-> Scaled(factor, frame.data_loss.ex),
                       sq |-> [p \in Weights |->
                                  QMul(factor, frame.data_loss.sq[p])]],
                  !.returned = TRUE])

NextDescent ==
    \/ D171 \/ D172 \/ D173 \/ D174 \/ D177 \/ D178 \/ D179
    \/ D184 \/ D185 \/ D190 \/ D191 \/ D193 \/ D194 \/ D213
    \/ H79 \/ H82 \/ H83 \/ H86 \/ H88

SpecDescent == InitDescent /\ [][NextDescent]_vars

\* The derivative of the loss in the parameter p: the per-example gradients
\* with the coefficients of the loss, and regularization * p with twice the
\* coefficient of regularization * sum(square(p)) (none for a bias).
Derivative(loss, p) ==
    [ex |-> loss.ex,
     w |-> IF p \in Weights THEN QMul(Q(2, 1), loss.sq[p]) ELSE Q(0, 1)]

\* The gradient combinations a and b are equal.
SameGradient(a, b) ==
    /\ Len(a.ex) = Len(b.ex)
    /\ \A r \in 1..Len(a.ex) :
          /\ QEq(a.ex[r].coef, b.ex[r].coef)
          /\ a.ex[r].minus = b.ex[r].minus
    /\ QEq(a.w, b.w)

\* C13: the update build_model applies to every parameter is -learning_rate
\* times the derivative, in that parameter, of the loss cross_entropy
\* reports for the training data.
C13_UpdateIsDescentOnReportedLoss ==
    frame.returned =>
        \A p \in Params :
            SameGradient(frame.update[p],
                         Step(Derivative(frame.train_loss, p)))

\* One iteration has updated the four parameters for two training examples
\* or more and cross_entropy has returned the loss of the training data.
C13_Witness ==
    /\ frame.returned
    /\ Len(frame.Y_train) >= 2
    /\ \A p \in Params : Len(frame.update[p].ex) = Len(frame.Y_train)
====
